---- MODULE Spec2Model ----
(***************************************************************************)
(* The peer/module message broker of packages/server-runtime/src/index.ts  *)
(* (setupApp): the peer registry `peers`, the module directory             *)
(* `peersByModule`, and the WebSocket handler's open / message / error /   *)
(* close callbacks.  The host runtime is a single-threaded event loop, so  *)
(* each callback runs to completion and is one action; between two         *)
(* callbacks the loop is idle.  `last` and `sent` describe the callback     *)
(* that has just run and are cleared when the loop takes the next event;   *)
(* `before` is the registry, directory and sockets the callback started    *)
(* from.                                                                   *)
(*                                                                         *)
(* Transport assumptions (crossws is an external collaborator):            *)
(*   - peer ids are unique; the k-th accepted connection is named k, so    *)
(*     the insertion order of the `peers` Map is the order of the ids;     *)
(*   - peer.send throws exactly when the recipient's socket is gone; a     *)
(*     socket may turn out to be gone at any send to it, except the        *)
(*     socket whose event the running callback is handling;                *)
(*   - a socket that is gone delivers no further frames; every connection  *)
(*     gets a close event, also after its socket is gone, and the close    *)
(*     event of a connection may be delivered again.                       *)
(*                                                                         *)
(* A second specification, PollerSpec, is the LiveChatPoller of            *)
(* plugins/airi-plugin-youtube-livechat/src/youtube/chat-poller.ts: its    *)
(* fields, the requests it has in flight and the timers it has pending.    *)
(* poll() is asynchronous: the part up to the await runs inside start() or *)
(* a timer, the part after it when the request resolves or rejects, and    *)
(* start() and stop() may run in between.  The callbacks the plugin passes *)
(* (onMessage, onError, onEnd) log and send; they return normally and do   *)
(* not call back into the poller.                                          *)
(*                                                                         *)
(* A third specification, PluginSpec, is the YouTubeLiveChatPlugin of      *)
(* plugins/airi-plugin-youtube-livechat/src/plugin.ts with the poller it   *)
(* holds in chatPoller: there the poller's fields are those of the current *)
(* chatPoller, start() and stop() of the poller run only inside the        *)
(* plugin's handlers, and the requests of pollers the plugin has dropped   *)
(* are counted in `orphans`.  A handler of the plugin is one action: its   *)
(* awaits (the token store, getLiveChatId) only read, and their outcome is *)
(* an input of the action.                                                 *)
(*                                                                         *)
(* A fourth specification, StoreSpec, is the client's server-channel store *)
(* (stores/mods/api/channel-server.ts, useModsServerChannelStore) and the  *)
(* Client objects of @proj-airi/server-sdk it constructs.  The SDK is an   *)
(* external collaborator:                                                  *)
(*   - a Client calls the onError / onClose options and the                *)
(*     module:authenticated listener it was given, in any order;           *)
(*   - a Client that has reported an error or a close may connect again by *)
(*     itself and then delivers module:authenticated again;                *)
(*   - after close() a Client reports at most its close, and nothing else; *)
(*   - Client.send returns normally.                                       *)
(*                                                                         *)
(* A fifth specification, OAuthSpec, is the OAuthServer of                 *)
(* plugins/airi-plugin-youtube-livechat/src/oauth/server.ts with its HTTP  *)
(* server listening: the calls of startAuthFlow(), each split at its       *)
(* await of open(), the callback requests, the token requests in flight    *)
(* and the five-minute timers.  Node runs every timer that is due, open()  *)
(* settles and a token request resolves or rejects: these steps are        *)
(* weakly fair.  Whether a callback request ever arrives is up to the      *)
(* user.                                                                   *)
(***************************************************************************)
EXTENDS Integers, Sequences, FiniteSets, TLC

\* ---------------------------------------------------------------- bounds
\* The number of connections the transport accepts in a run.
MaxPeers == 3

PeerIds == 1..MaxPeers

\* ------------------------------------------------------- JSON values
\* A JSON value of a frame field: its JavaScript type, its string value and
\* (for numbers) twice its numeric value, so that 1/2 is representable.
JUndef == [t |-> "undefined", s |-> "", n2 |-> 0]
JStr(x) == [t |-> "string", s |-> x, n2 |-> 0]
JNum2(k) == [t |-> "number", s |-> "", n2 |-> k]
JInt(k) == JNum2(2 * k)

\* typeof v === 'string'
IsString(v) == v.t = "string"
\* typeof v === 'undefined'
IsUndefined(v) == v.t = "undefined"
\* !v
Falsy(v) ==
  \/ v.t = "undefined"
  \/ v.t = "string" /\ v.s = ""
  \/ v.t = "number" /\ v.n2 = 0
\* Number.isInteger(v)
IsInteger(v) == v.t = "number" /\ v.n2 % 2 = 0
\* v < 0, for a number
IsNegative(v) == v.t = "number" /\ v.n2 < 0

\* ------------------------------------------------------- configuration
Secret == "s3cr3t"
ModuleNames == {"speech"}
\* The slots modules announce: the singleton slot (no index) and slot 0.
ValidIndexes == {JUndef, JInt(0)}
ServerSource == "server"

\* ------------------------------------------------------- server replies
MsgInvalidToken == "invalid token"
MsgNotAuthenticated == "not authenticated"
MsgAnnounceName == "the field 'name' must be a non-empty string for event 'module:announce'"
MsgAnnounceIndex == "the field 'index' must be a non-negative integer for event 'module:announce'"
MsgMustAuthenticate == "must authenticate before announcing"
MsgConfigureName == "the field 'moduleName' can't be empty for event 'ui:configure'"
MsgConfigureIndex == "the field 'moduleIndex' must be a non-negative integer for event 'ui:configure'"
MsgNotFound == "module not found, it hasn't announced itself or the name is incorrect"

\* One call of peer.send: the recipient, the event and whether the call returned.
Out(to, type, message, config, source, ok) ==
  [to |-> to, type |-> type, message |-> message, config |-> config,
   source |-> source, ok |-> ok]

ErrorTo(to, message) == Out(to, "error", message, "", ServerSource, TRUE)
AuthenticatedTo(to) == Out(to, "module:authenticated", "", "", ServerSource, TRUE)
NotAuthenticatedTo(to) == Out(to, "error", MsgNotAuthenticated, "", ServerSource, TRUE)

\* ------------------------------------------------------- inbound frames
\* A frame as message.json() yields it: `json` is whether the text parses,
\* `data` whether the parsed value has a `data` object; an absent `type` is "".
Frame(type, token, name, index, config, source) ==
  [type |-> type, token |-> token, name |-> name, index |-> index,
   config |-> config, source |-> source, json |-> TRUE, data |-> TRUE]

NoFrame == Frame("", "", JUndef, JUndef, "", "")

BadNames == {JStr(""), JUndef, JInt(7)}
BadIndexes == {JInt(-1), JNum2(1), JStr("0")}
GoodNames == {JStr(n) : n \in ModuleNames}

AuthenticateFrames ==
  {Frame("module:authenticate", tok, JUndef, JUndef, "", "plugin") : tok \in {Secret, "wrong"}}

AnnounceFrames ==
  {Frame("module:announce", "", n, i, "", "plugin") : n \in GoodNames, i \in ValidIndexes}
  \cup {Frame("module:announce", "", n, JUndef, "", "plugin") : n \in BadNames}
  \cup {Frame("module:announce", "", JStr("speech"), i, "", "plugin") : i \in BadIndexes}

\* ui:configure carries data.moduleName / data.moduleIndex in name / index.
ConfigureFrames ==
  {Frame("ui:configure", "", n, i, "volume", "stage-web-ui") :
      n \in GoodNames, i \in ValidIndexes}
  \cup {Frame("ui:configure", "", JStr("speech"), JInt(0), "volume", "plugin")}
  \cup {Frame("ui:configure", "", n, JUndef, "volume", "stage-web-ui") : n \in BadNames}
  \cup {Frame("ui:configure", "", JStr("speech"), i, "volume", "stage-web-ui") : i \in BadIndexes}

DefaultFrames ==
  {Frame("input:text", "", JUndef, JUndef, "", "plugin")}

\* Frames that are not an envelope {type, data, source}: text that is not
\* JSON, JSON without a `type`, and JSON without a `data`.
NotJson == [Frame("", "", JUndef, JUndef, "", "") EXCEPT !.json = FALSE, !.data = FALSE]
NoType == Frame("", "", JUndef, JUndef, "", "plugin")
NoData(type) == [Frame(type, "", JUndef, JUndef, "", "plugin") EXCEPT !.data = FALSE]
MalformedFrames ==
  {NotJson, NoType}
  \cup {NoData(t) : t \in {"module:authenticate", "module:announce", "ui:configure", "input:text"}}

\* ---------------------------------------------------------------- state
VARIABLES
  authToken,      \* the configured shared secret, "" when none is configured
  sock,           \* transport: each connection's socket state
  peers,          \* Map<string, AuthenticatedPeer>, keyed by peer id
  peersByModule,  \* Map<string, Map<number | undefined, AuthenticatedPeer>>
  sent,           \* the peer.send calls of the callback that just ran, in order
  last,           \* the callback that just ran: which, for which peer, with
                  \* which frame; op = "idle" once the loop has moved on
  before          \* sock, peers and peersByModule when the loop was last idle

\* The live-chat poller of plugins/airi-plugin-youtube-livechat
\* (src/youtube/chat-poller.ts), one LiveChatPoller object and its environment.
VARIABLES
  isRunning,          \* LiveChatPoller.isRunning
  nextPageToken,      \* LiveChatPoller.nextPageToken, "" when undefined
  pollingInterval,    \* LiveChatPoller.pollingInterval, in ms
  seenMessageIds,     \* LiveChatPoller.seenMessageIds, in insertion order, as
                      \* the runs [lo, hi] of consecutive ids it consists of
  pollTimeoutId,      \* LiveChatPoller.pollTimeoutId: "none" (undefined), or the
                      \* handle of a timer that is "pending" or has "fired"
  consecutiveErrors,  \* LiveChatPoller.consecutiveErrors
  inFlight,           \* getLiveChatMessages requests awaiting their result
  timers,             \* the delays of the pending setTimeout timers, oldest first
  emitted,            \* how often onMessage was invoked for each message id
  returnedInterval,   \* pollingIntervalMillis of the last request that resolved
  failedPolls,        \* the requests that rejected since the last one that
                      \* resolved, or since start() set the poller running
  polled              \* the poller step that just ran

\* The plugin of plugins/airi-plugin-youtube-livechat (src/plugin.ts).
VARIABLES
  isPolling,          \* YouTubeLiveChatPlugin.isPolling
  chatPoller,         \* YouTubeLiveChatPlugin.chatPoller is not null
  currentStreamUrl,   \* YouTubeLiveChatPlugin.currentStreamUrl
  orphans             \* requests in flight of pollers that are no longer
                      \* chatPoller; their callbacks still hold the plugin

\* The server-channel store of the client and its environment.
VARIABLES
  connected,          \* connected.value
  client,             \* client.value: the Client's number, 0 when undefined
  initializing,       \* initializing.value is not null
  pendingSend,        \* pendingSend.value, the events by their numbers
  clients,            \* each Client the store has constructed: "unused",
                      \* "connecting", "authenticated", "down" (it reported an
                      \* error or a close), "closing" (close() was called),
                      \* "closed"
  handed,             \* the Client.send calls so far, in order: the event, the
                      \* Client, and whether that Client was authenticated
  calls               \* the send() calls so far; the k-th passes event k

\* The OAuth server of the plugin (src/oauth/server.ts) and its environment.
VARIABLES
  hasCredentials,     \* clientId and clientSecret are both non-empty
  codeVerifier,       \* OAuthServer.codeVerifier: the call of startAuthFlow()
                      \* that generated it, 0 when null
  state,              \* OAuthServer.state, likewise
  authResolve,        \* OAuthServer.authResolve: the call whose promise it
                      \* resolves, 0 when null
  flows,              \* each call of startAuthFlow(): "unstarted", "opening"
                      \* (awaiting open()), "waiting" (its promise is
                      \* pending), "true" or "false" (what it resolved to)
  authTimers,         \* each call's timer: "none", "pending" or "fired"
  exchanging,         \* callback handlers awaiting the token request
  storedTokens        \* the token store holds tokens

brokerVars == <<authToken, sock, peers, peersByModule, sent, last, before>>
pollerVars == <<isRunning, nextPageToken, pollingInterval, seenMessageIds,
                pollTimeoutId, consecutiveErrors, inFlight, timers, emitted,
                returnedInterval, failedPolls, polled>>
pluginVars == <<isPolling, chatPoller, currentStreamUrl, orphans>>
\* What a step of the broker, of the plugin with its poller, and of the
\* poller leaves alone.
storeVars == <<connected, client, initializing, pendingSend, clients, handed, calls>>
oauthVars == <<hasCredentials, codeVerifier, state, authResolve, flows,
               authTimers, exchanging, storedTokens>>
outsideBroker == <<pollerVars, pluginVars, storeVars, oauthVars>>
outsidePlugin == <<brokerVars, storeVars, oauthVars>>
outsideStore == <<brokerVars, pollerVars, pluginVars, oauthVars>>
outsideOAuth == <<brokerVars, pollerVars, pluginVars, storeVars>>
outsidePoller == <<outsidePlugin, pluginVars>>

vars == <<brokerVars, pollerVars, pluginVars, storeVars, oauthVars>>

Empty == [x \in {} |-> 0]

Event(op, peer, frame, threw) ==
  [op |-> op, peer |-> peer, frame |-> frame, threw |-> threw]

\* f without key k
Without(f, k) == [x \in DOMAIN f \ {k} |-> f[x]]
\* f with key k set to v (Map.set)
With(f, k, v) == [x \in DOMAIN f \cup {k} |-> IF x = k THEN v ELSE f[x]]

\* ------------------------------------------------- LiveChatPoller: fields
\* private pollingInterval = 5000
DefaultPollingInterval == 5000
\* private maxConsecutiveErrors = 5
MaxConsecutiveErrors == 5
\* the cap of the backoff: 60000 ms
MaxBackoffMs == 60000
\* seenMessageIds is cut back once it holds more than 1000 ids, to the last 500
SeenLimit == 1000
SeenKeep == 500

\* The polling chains (requests in flight plus pending timers) in a run.
MaxChains == 2
\* The requests in flight of dropped pollers at any time.
MaxOrphans == 1
\* The Client objects the store constructs, and the send() calls, in a run.
MaxClients == 2
MaxEvents == 2
\* The calls of startAuthFlow() in a run, and the token requests in flight.
MaxFlows == 3
MaxExchanges == 1
\* How often onMessage is invoked for one message id in a run.
MaxEmits == 2

\* The message ids the API's pages are made of: the first message of the
\* chat and the message after the thousandth.
MessageIds == {1, SeenLimit + 1}
\* pollingIntervalMillis of the API's results
ResultIntervals == {1000, 10000}

\* One step of the poller, as its collaborators see it: the method or
\* completion that ran, the error status, the ids given to onMessage in
\* order, the calls of onError and onEnd, the delay passed to setTimeout (0
\* when no timer was set), and whether a request was issued.
PollerStep(op, status, messages, onError, onEnd, scheduled, requested) ==
  [op |-> op, status |-> status, messages |-> messages, onError |-> onError,
   onEnd |-> onEnd, scheduled |-> scheduled, requested |-> requested]

\* A LiveChatPoller after its constructor.
PollerConstructed ==
  /\ isRunning = FALSE
  /\ nextPageToken = ""
  /\ pollingInterval = DefaultPollingInterval
  /\ seenMessageIds = <<>>
  /\ pollTimeoutId = "none"
  /\ consecutiveErrors = 0
  /\ inFlight = 0
  /\ timers = <<>>
  /\ emitted = [m \in MessageIds |-> 0]
  /\ returnedInterval = DefaultPollingInterval
  /\ failedPolls = 0
  /\ polled = PollerStep("new", 0, <<>>, FALSE, FALSE, 0, FALSE)

\* A LiveChatPoller that has handed SeenLimit distinct messages, ids 1 to
\* SeenLimit, to onMessage, and whose last request resolved with an empty page.
PollerAfterManyMessages ==
  /\ isRunning = TRUE
  /\ nextPageToken = "next"
  /\ pollingInterval = 1000
  /\ seenMessageIds = <<[lo |-> 1, hi |-> SeenLimit]>>
  /\ pollTimeoutId = "pending"
  /\ consecutiveErrors = 0
  /\ inFlight = 0
  /\ timers = <<1000>>
  /\ emitted = [m \in MessageIds |-> IF m <= SeenLimit THEN 1 ELSE 0]
  /\ returnedInterval = 1000
  /\ failedPolls = 0
  /\ polled = PollerStep("resolve", 0, <<>>, FALSE, FALSE, 1000, FALSE)

\* The stream URLs of the configuration; "" is none.
StreamUrls == {"", "a", "b"}

\* A YouTubeLiveChatPlugin after its constructor, with the stream URL given.
PluginConstructed(streamUrl) ==
  /\ isPolling = FALSE
  /\ chatPoller = FALSE
  /\ currentStreamUrl = streamUrl
  /\ orphans = 0

\* The server-channel store after defineStore's setup function.
StoreConstructed ==
  /\ connected = FALSE
  /\ client = 0
  /\ initializing = FALSE
  /\ pendingSend = <<>>
  /\ clients = [c \in 1..MaxClients |-> "unused"]
  /\ handed = <<>>
  /\ calls = 0

\* An OAuthServer after its constructor, with or without credentials.
OAuthConstructed(credentials) ==
  /\ hasCredentials = credentials
  /\ codeVerifier = 0
  /\ state = 0
  /\ authResolve = 0
  /\ flows = [f \in 1..MaxFlows |-> "unstarted"]
  /\ authTimers = [f \in 1..MaxFlows |-> "none"]
  /\ exchanging = 0
  /\ storedTokens = FALSE

\* The broker after setupApp, with the shared secret given.
BrokerConstructed(token) ==
  /\ authToken = token
  /\ sock = [p \in PeerIds |-> "unused"]
  /\ peers = Empty
  /\ peersByModule = Empty
  /\ sent = <<>>
  /\ last = Event("idle", 0, NoFrame, FALSE)
  /\ before = [sock |-> sock, peers |-> peers, dir |-> peersByModule]

Init ==
  /\ PollerConstructed
  /\ OAuthConstructed(FALSE)
  /\ StoreConstructed
  /\ PluginConstructed("")
  /\ authToken \in {"", Secret}
  /\ sock = [p \in PeerIds |-> "unused"]
  /\ peers = Empty
  /\ peersByModule = Empty
  /\ sent = <<>>
  /\ last = Event("idle", 0, NoFrame, FALSE)
  /\ before = [sock |-> sock, peers |-> peers, dir |-> peersByModule]

\* The event loop is between two callbacks.
Idle == last.op = "idle"

\* ------------------------------------------------------- module directory
\* a registration that leaves an occupied slot to its occupant
registerModulePeer_keepsFirst(dir, p, name, index) ==
  LET group == IF name \in DOMAIN dir THEN dir[name] ELSE Empty
  IN  IF index \in DOMAIN group THEN dir
      ELSE With(dir, name, With(group, index, p))

\* peersByModule.get(name) ?? new Map(); group.set(index, p)
registerModulePeer(dir, p, name, index) ==
  LET group == IF name \in DOMAIN dir THEN dir[name] ELSE Empty
  IN  With(dir, name, With(group, index, p))

\* an unregister that leaves the emptied group of a name in the directory
unregisterModulePeer_noPrune(dir, rec) ==
  IF rec.name = "" THEN dir
  ELSE IF rec.name \in DOMAIN dir
       THEN With(dir, rec.name, Without(dir[rec.name], rec.index))
       ELSE dir

unregisterModulePeer(dir, rec) ==
  IF rec.name = "" THEN dir
  ELSE IF rec.name \in DOMAIN dir
       THEN LET group == Without(dir[rec.name], rec.index)
            IN  IF DOMAIN group = {} THEN Without(dir, rec.name)
                ELSE With(dir, rec.name, group)
       ELSE dir

\* a lookup by module name alone, whatever the index
lookupModulePeer_anyIndex(dir, moduleName, moduleIndex) ==
  IF IsString(moduleName) /\ moduleName.s \in DOMAIN dir
  THEN dir[moduleName.s][CHOOSE i \in DOMAIN dir[moduleName.s] : TRUE]
  ELSE 0

\* peersByModule.get(moduleName)?.get(moduleIndex): the peer id, or 0
lookupModulePeer(dir, moduleName, moduleIndex) ==
  IF IsString(moduleName) /\ moduleName.s \in DOMAIN dir
     /\ moduleIndex \in DOMAIN dir[moduleName.s]
  THEN dir[moduleName.s][moduleIndex]
  ELSE 0

\* an open that trusts every connection, whatever the configuration
open_alwaysAuthenticated(p) ==
  /\ Idle
  /\ sock[p] = "unused"
  /\ \A q \in PeerIds : q < p => sock[q] # "unused"
  /\ sock' = [sock EXCEPT ![p] = "open"]
  /\ sent' = <<AuthenticatedTo(p)>>
  /\ peers' = With(peers, p, [authenticated |-> TRUE, name |-> "", index |-> JUndef])
  /\ last' = Event("open", p, NoFrame, FALSE)
  /\ UNCHANGED <<authToken, peersByModule, before>>
  /\ UNCHANGED outsideBroker

\* ---------------------------------------------------------------- open
\* open: (peer) => ...
open(p) ==
  /\ Idle
  /\ sock[p] = "unused"
  /\ \A q \in PeerIds : q < p => sock[q] # "unused"
  /\ sock' = [sock EXCEPT ![p] = "open"]
  /\ IF authToken # ""
     THEN /\ peers' = With(peers, p, [authenticated |-> FALSE, name |-> "", index |-> JUndef])
          /\ sent' = <<>>
     ELSE /\ sent' = <<AuthenticatedTo(p)>>
          /\ peers' = With(peers, p, [authenticated |-> TRUE, name |-> "", index |-> JUndef])
  /\ last' = Event("open", p, NoFrame, FALSE)
  /\ UNCHANGED <<authToken, peersByModule, before>>
  /\ UNCHANGED outsideBroker

\* ---------------------------------------------------------------- message
\* an authenticate that forgets a peer whose token is wrong
authenticate_dropsOnFail(p, f) ==
  /\ f.type = "module:authenticate"
  /\ IF authToken # "" /\ f.token # authToken
     THEN /\ sent' = <<ErrorTo(p, MsgInvalidToken)>>
          /\ peers' = Without(peers, p)
     ELSE /\ sent' = <<AuthenticatedTo(p)>>
          /\ peers' = IF p \in DOMAIN peers
                      THEN [peers EXCEPT ![p].authenticated = TRUE]
                      ELSE peers
  /\ last' = Event("message", p, f, FALSE)
  /\ UNCHANGED <<authToken, sock, peersByModule>>

\* an authenticate that acknowledges without recording it
authenticate_ackOnly(p, f) ==
  /\ f.type = "module:authenticate"
  /\ IF authToken # "" /\ f.token # authToken
     THEN sent' = <<ErrorTo(p, MsgInvalidToken)>>
     ELSE sent' = <<AuthenticatedTo(p)>>
  /\ last' = Event("message", p, f, FALSE)
  /\ UNCHANGED <<authToken, sock, peers, peersByModule>>

\* an authenticate that drops the authentication on a wrong token
authenticate_resetsOnFail(p, f) ==
  /\ f.type = "module:authenticate"
  /\ IF authToken # "" /\ f.token # authToken
     THEN /\ sent' = <<ErrorTo(p, MsgInvalidToken)>>
          /\ peers' = IF p \in DOMAIN peers
                      THEN [peers EXCEPT ![p].authenticated = FALSE]
                      ELSE peers
     ELSE /\ sent' = <<AuthenticatedTo(p)>>
          /\ peers' = IF p \in DOMAIN peers
                      THEN [peers EXCEPT ![p].authenticated = TRUE]
                      ELSE peers
  /\ last' = Event("message", p, f, FALSE)
  /\ UNCHANGED <<authToken, sock, peersByModule>>

\* case 'module:authenticate'
authenticate(p, f) ==
  /\ f.type = "module:authenticate"
  /\ IF authToken # "" /\ f.token # authToken
     THEN /\ sent' = <<ErrorTo(p, MsgInvalidToken)>>
          /\ peers' = peers
     ELSE /\ sent' = <<AuthenticatedTo(p)>>
          /\ peers' = IF p \in DOMAIN peers
                      THEN [peers EXCEPT ![p].authenticated = TRUE]
                      ELSE peers
  /\ last' = Event("message", p, f, FALSE)
  /\ UNCHANGED <<authToken, sock, peersByModule>>

\* a validation without the `authToken && !p.authenticated` test
announceError_noAuthCheck(rec, f) ==
  IF Falsy(f.name) \/ ~IsString(f.name) THEN MsgAnnounceName
  ELSE IF ~IsUndefined(f.index) /\ (~IsInteger(f.index) \/ IsNegative(f.index))
       THEN MsgAnnounceIndex
  ELSE ""

\* The reply of case 'module:announce' to a frame it rejects, "" when it accepts.
announceError(rec, f) ==
  IF Falsy(f.name) \/ ~IsString(f.name) THEN MsgAnnounceName
  ELSE IF ~IsUndefined(f.index) /\ (~IsInteger(f.index) \/ IsNegative(f.index))
       THEN MsgAnnounceIndex
  ELSE IF authToken # "" /\ ~rec.authenticated THEN MsgMustAuthenticate
  ELSE ""

\* an announce that registers the slot without recording it in the peer
announce_keepsRecord(p, f) ==
  /\ f.type = "module:announce"
  /\ IF p \notin DOMAIN peers
     THEN /\ sent' = <<>>
          /\ UNCHANGED <<peers, peersByModule>>
     ELSE LET dir == unregisterModulePeer(peersByModule, peers[p])
              err == announceError(peers[p], f)
          IN  IF err # ""
              THEN /\ sent' = <<ErrorTo(p, err)>>
                   /\ peersByModule' = dir
                   /\ peers' = peers
              ELSE /\ sent' = <<>>
                   /\ peers' = peers
                   /\ peersByModule' = registerModulePeer(dir, p, f.name.s, f.index)
  /\ last' = Event("message", p, f, FALSE)
  /\ UNCHANGED <<authToken, sock>>

\* an announce that registers the new slot without leaving the old one
announce_keepsOldSlot(p, f) ==
  /\ f.type = "module:announce"
  /\ IF p \notin DOMAIN peers
     THEN /\ sent' = <<>>
          /\ UNCHANGED <<peers, peersByModule>>
     ELSE LET err == announceError(peers[p], f)
          IN  IF err # ""
              THEN /\ sent' = <<ErrorTo(p, err)>>
                   /\ peersByModule' = unregisterModulePeer(peersByModule, peers[p])
                   /\ peers' = peers
              ELSE /\ sent' = <<>>
                   /\ peers' = [peers EXCEPT ![p].name = f.name.s, ![p].index = f.index]
                   /\ peersByModule' = registerModulePeer(peersByModule, p, f.name.s, f.index)
  /\ last' = Event("message", p, f, FALSE)
  /\ UNCHANGED <<authToken, sock>>

\* case 'module:announce'
announce(p, f) ==
  /\ f.type = "module:announce"
  /\ IF p \notin DOMAIN peers
     THEN /\ sent' = <<>>
          /\ UNCHANGED <<peers, peersByModule>>
     ELSE LET dir == unregisterModulePeer(peersByModule, peers[p])
              err == announceError(peers[p], f)
          IN  IF err # ""
              THEN /\ sent' = <<ErrorTo(p, err)>>
                   /\ peersByModule' = dir
                   /\ peers' = peers
              ELSE /\ sent' = <<>>
                   /\ peers' = [peers EXCEPT ![p].name = f.name.s, ![p].index = f.index]
                   /\ peersByModule' = registerModulePeer(dir, p, f.name.s, f.index)
  /\ last' = Event("message", p, f, FALSE)
  /\ UNCHANGED <<authToken, sock>>

\* The reply of case 'ui:configure' to a frame it rejects before the lookup.
configureError(f) ==
  IF IsString(f.name) /\ f.name.s = "" THEN MsgConfigureName
  ELSE IF ~IsUndefined(f.index) /\ (~IsInteger(f.index) \/ IsNegative(f.index))
       THEN MsgConfigureIndex
  ELSE ""

\* a ui:configure that forwards under the server's own source
uiConfigure_serverSource(p, f, fail) ==
  /\ f.type = "ui:configure"
  /\ LET err == configureError(f)
         target == lookupModulePeer(peersByModule, f.name, f.index)
     IN  IF err # ""
         THEN /\ ~fail
              /\ sent' = <<ErrorTo(p, err)>>
              /\ last' = Event("message", p, f, FALSE)
              /\ sock' = sock
         ELSE IF target # 0
              THEN /\ fail => target # p
                   /\ sock[target] # "open" => fail
                   /\ sent' = <<Out(target, "module:configure", "", f.config, ServerSource, ~fail)>>
                   /\ last' = Event("message", p, f, fail)
                   /\ sock' = IF fail /\ sock[target] = "open"
                              THEN [sock EXCEPT ![target] = "gone"] ELSE sock
              ELSE /\ ~fail
                   /\ sent' = <<ErrorTo(p, MsgNotFound)>>
                   /\ last' = Event("message", p, f, FALSE)
                   /\ sock' = sock
  /\ UNCHANGED <<authToken, peers, peersByModule>>

\* a ui:configure that drops a frame addressing no module without a reply
uiConfigure_silentMiss(p, f, fail) ==
  /\ f.type = "ui:configure"
  /\ LET err == configureError(f)
         target == lookupModulePeer(peersByModule, f.name, f.index)
     IN  IF err # ""
         THEN /\ ~fail
              /\ sent' = <<ErrorTo(p, err)>>
              /\ last' = Event("message", p, f, FALSE)
              /\ sock' = sock
         ELSE IF target # 0
              THEN /\ fail => target # p
                   /\ sock[target] # "open" => fail
                   /\ sent' = <<Out(target, "module:configure", "", f.config, f.source, ~fail)>>
                   /\ last' = Event("message", p, f, fail)
                   /\ sock' = IF fail /\ sock[target] = "open"
                              THEN [sock EXCEPT ![target] = "gone"] ELSE sock
              ELSE /\ ~fail
                   /\ sent' = <<>>
                   /\ last' = Event("message", p, f, FALSE)
                   /\ sock' = sock
  /\ UNCHANGED <<authToken, peers, peersByModule>>

\* case 'ui:configure'; `fail` is whether the send to the target throws, which
\* leaves the handler by the exception.
uiConfigure(p, f, fail) ==
  /\ f.type = "ui:configure"
  /\ LET err == configureError(f)
         target == lookupModulePeer(peersByModule, f.name, f.index)
     IN  IF err # ""
         THEN /\ ~fail
              /\ sent' = <<ErrorTo(p, err)>>
              /\ last' = Event("message", p, f, FALSE)
              /\ sock' = sock
         ELSE IF target # 0
              THEN /\ fail => target # p
                   /\ sock[target] # "open" => fail
                   /\ sent' = <<Out(target, "module:configure", "", f.config, f.source, ~fail)>>
                   /\ last' = Event("message", p, f, fail)
                   /\ sock' = IF fail /\ sock[target] = "open"
                              THEN [sock EXCEPT ![target] = "gone"] ELSE sock
              ELSE /\ ~fail
                   /\ sent' = <<ErrorTo(p, MsgNotFound)>>
                   /\ last' = Event("message", p, f, FALSE)
                   /\ sock' = sock
  /\ UNCHANGED <<authToken, peers, peersByModule>>

\* a loop whose iteration loses the entry after one it has deleted
RECURSIVE broadcastLoop_skipsAfterDelete(_, _, _, _, _)
broadcastLoop_skipsAfterDelete(id, sender, f, fails, st) ==
  IF id > MaxPeers THEN st
  ELSE IF id \notin DOMAIN st.peers \/ id = sender
       THEN broadcastLoop_skipsAfterDelete(id + 1, sender, f, fails, st)
  ELSE IF id \in fails
       THEN broadcastLoop_skipsAfterDelete(id + 2, sender, f, fails,
              [peers |-> Without(st.peers, id),
               dir |-> unregisterModulePeer(st.dir, st.peers[id]),
               sent |-> Append(st.sent, Out(id, f.type, "", f.config, f.source, FALSE))])
  ELSE broadcastLoop_skipsAfterDelete(id + 1, sender, f, fails,
         [st EXCEPT !.sent = Append(st.sent, Out(id, f.type, "", f.config, f.source, TRUE))])

\* a loop that passes over the peers that have not authenticated
RECURSIVE broadcastLoop_onlyAuthenticated(_, _, _, _, _)
broadcastLoop_onlyAuthenticated(id, sender, f, fails, st) ==
  IF id > MaxPeers THEN st
  ELSE IF id \notin DOMAIN st.peers \/ id = sender \/ ~st.peers[id].authenticated
       THEN broadcastLoop_onlyAuthenticated(id + 1, sender, f, fails, st)
  ELSE IF id \in fails
       THEN broadcastLoop_onlyAuthenticated(id + 1, sender, f, fails,
              [peers |-> Without(st.peers, id),
               dir |-> unregisterModulePeer(st.dir, st.peers[id]),
               sent |-> Append(st.sent, Out(id, f.type, "", f.config, f.source, FALSE))])
  ELSE broadcastLoop_onlyAuthenticated(id + 1, sender, f, fails,
         [st EXCEPT !.sent = Append(st.sent, Out(id, f.type, "", f.config, f.source, TRUE))])

\* a loop without the try / catch: the first failed send ends it
RECURSIVE broadcastLoop_abortOnFail(_, _, _, _, _)
broadcastLoop_abortOnFail(id, sender, f, fails, st) ==
  IF id > MaxPeers THEN st
  ELSE IF id \notin DOMAIN st.peers \/ id = sender
       THEN broadcastLoop_abortOnFail(id + 1, sender, f, fails, st)
  ELSE IF id \in fails
       THEN [st EXCEPT !.sent = Append(st.sent, Out(id, f.type, "", f.config, f.source, FALSE))]
  ELSE broadcastLoop_abortOnFail(id + 1, sender, f, fails,
         [st EXCEPT !.sent = Append(st.sent, Out(id, f.type, "", f.config, f.source, TRUE))])

\* a loop without the `id === peer.id` test: the sender is sent its own event
RECURSIVE broadcastLoop_noSelfSkip(_, _, _, _, _)
broadcastLoop_noSelfSkip(id, sender, f, fails, st) ==
  IF id > MaxPeers THEN st
  ELSE IF id \notin DOMAIN st.peers
       THEN broadcastLoop_noSelfSkip(id + 1, sender, f, fails, st)
  ELSE IF id \in fails
       THEN broadcastLoop_noSelfSkip(id + 1, sender, f, fails,
              [peers |-> Without(st.peers, id),
               dir |-> unregisterModulePeer(st.dir, st.peers[id]),
               sent |-> Append(st.sent, Out(id, f.type, "", f.config, f.source, FALSE))])
  ELSE broadcastLoop_noSelfSkip(id + 1, sender, f, fails,
         [st EXCEPT !.sent = Append(st.sent, Out(id, f.type, "", f.config, f.source, TRUE))])

\* The broadcast loop `for (const [id, other] of peers.entries())`, from entry
\* `id` on: a Map iterator walks the live map in insertion order, so an entry
\* deleted before it is reached is skipped.  st = [peers, dir, sent].
RECURSIVE broadcastLoop(_, _, _, _, _)
broadcastLoop(id, sender, f, fails, st) ==
  IF id > MaxPeers THEN st
  ELSE IF id \notin DOMAIN st.peers \/ id = sender
       THEN broadcastLoop(id + 1, sender, f, fails, st)
  ELSE IF id \in fails
       THEN broadcastLoop(id + 1, sender, f, fails,
              [peers |-> Without(st.peers, id),
               dir |-> unregisterModulePeer(st.dir, st.peers[id]),
               sent |-> Append(st.sent, Out(id, f.type, "", f.config, f.source, FALSE))])
  ELSE broadcastLoop(id + 1, sender, f, fails,
         [st EXCEPT !.sent = Append(st.sent, Out(id, f.type, "", f.config, f.source, TRUE))])

\* a default case without the `!p?.authenticated` test
broadcast_noAuthCheck(p, f, fails) ==
  /\ f.type \notin {"module:authenticate", "module:announce", "ui:configure"}
  /\ fails \subseteq DOMAIN peers \ {p}
  /\ \A q \in DOMAIN peers \ {p} : sock[q] # "open" => q \in fails
  /\ sock' = [q \in PeerIds |-> IF q \in fails /\ sock[q] = "open"
                                THEN "gone" ELSE sock[q]]
  /\ LET st == broadcastLoop(1, p, f, fails,
                 [peers |-> peers, dir |-> peersByModule, sent |-> <<>>])
     IN  /\ peers' = st.peers
         /\ peersByModule' = st.dir
         /\ sent' = st.sent
  /\ last' = Event("message", p, f, FALSE)
  /\ UNCHANGED authToken

\* default case: any other event type; `fails` are the recipients whose socket
\* is gone when the loop sends to them.
broadcast(p, f, fails) ==
  /\ f.type \notin {"module:authenticate", "module:announce", "ui:configure"}
  /\ IF p \notin DOMAIN peers \/ ~peers[p].authenticated
     THEN /\ fails = {}
          /\ sent' = <<NotAuthenticatedTo(p)>>
          /\ UNCHANGED <<sock, peers, peersByModule>>
     ELSE /\ fails \subseteq DOMAIN peers \ {p}
          /\ \A q \in DOMAIN peers \ {p} : sock[q] # "open" => q \in fails
          /\ sock' = [q \in PeerIds |-> IF q \in fails /\ sock[q] = "open"
                                        THEN "gone" ELSE sock[q]]
          /\ LET st == broadcastLoop(1, p, f, fails,
                         [peers |-> peers, dir |-> peersByModule, sent |-> <<>>])
             IN  /\ peers' = st.peers
                 /\ peersByModule' = st.dir
                 /\ sent' = st.sent
  /\ last' = Event("message", p, f, FALSE)
  /\ UNCHANGED authToken

Frames ==
  AuthenticateFrames \cup AnnounceFrames \cup ConfigureFrames \cup DefaultFrames
  \cup MalformedFrames

\* message.json() throws: the catch block replies and returns.
invalidJson(p, f) ==
  /\ sent' = <<ErrorTo(p, "invalid JSON")>>
  /\ last' = Event("message", p, f, FALSE)
  /\ UNCHANGED <<authToken, sock, peers, peersByModule>>

\* The handler is left by a TypeError.
throws(p, f) ==
  /\ sent' = <<>>
  /\ last' = Event("message", p, f, TRUE)

\* The three typed cases for an event without `data`: `event.data.token` and
\* the destructuring of `event.data` throw a TypeError where they are reached.
missingData(p, f) ==
  \/ /\ f.type = "module:authenticate"
     /\ IF authToken # ""
        THEN throws(p, f) /\ UNCHANGED <<authToken, sock, peers, peersByModule>>
        ELSE authenticate(p, f)
  \/ /\ f.type = "module:announce"
     /\ IF p \notin DOMAIN peers
        THEN /\ sent' = <<>>
             /\ last' = Event("message", p, f, FALSE)
             /\ UNCHANGED peersByModule
        ELSE /\ throws(p, f)
             /\ peersByModule' = unregisterModulePeer(peersByModule, peers[p])
     /\ UNCHANGED <<authToken, sock, peers>>
  \/ /\ f.type = "ui:configure"
     /\ throws(p, f)
     /\ UNCHANGED <<authToken, sock, peers, peersByModule>>

\* message: (peer, message) => ...
message(p, f) ==
  /\ Idle
  /\ sock[p] = "open"
  /\ IF ~f.json THEN invalidJson(p, f)
     ELSE \/ f.data /\ authenticate(p, f)
          \/ f.data /\ announce(p, f)
          \/ f.data /\ \E fail \in BOOLEAN : uiConfigure(p, f, fail)
          \/ ~f.data /\ missingData(p, f)
          \/ \E fails \in SUBSET PeerIds : broadcast(p, f, fails)
  /\ UNCHANGED before
  /\ UNCHANGED outsideBroker

\* ---------------------------------------------------------------- error
\* error: (peer, error) => ... only logs.
error(p) ==
  /\ Idle
  /\ sock[p] = "open"
  /\ sent' = <<>>
  /\ last' = Event("error", p, NoFrame, FALSE)
  /\ UNCHANGED <<authToken, sock, peers, peersByModule, before>>
  /\ UNCHANGED outsideBroker

\* ---------------------------------------------------------------- close
\* close that drops every slot of the peer's module name
close_dropsGroup(p) ==
  /\ Idle
  /\ sock[p] \in {"open", "gone", "closed"}
  /\ sock' = [sock EXCEPT ![p] = "closed"]
  /\ peersByModule' = IF p \in DOMAIN peers /\ peers[p].name # ""
                      THEN Without(peersByModule, peers[p].name)
                      ELSE peersByModule
  /\ peers' = Without(peers, p)
  /\ sent' = <<>>
  /\ last' = Event("close", p, NoFrame, FALSE)
  /\ UNCHANGED <<authToken, before>>
  /\ UNCHANGED outsideBroker

\* close without the `if (p)` test: unregistering an unknown peer throws
close_throwsOnUnknown(p) ==
  /\ Idle
  /\ sock[p] \in {"open", "gone", "closed"}
  /\ sock' = [sock EXCEPT ![p] = "closed"]
  /\ peersByModule' = IF p \in DOMAIN peers
                      THEN unregisterModulePeer(peersByModule, peers[p])
                      ELSE peersByModule
  /\ peers' = Without(peers, p)
  /\ sent' = <<>>
  /\ last' = Event("close", p, NoFrame, p \notin DOMAIN peers)
  /\ UNCHANGED <<authToken, before>>
  /\ UNCHANGED outsideBroker

\* close that forgets the directory cleanup
close_keepsSlot(p) ==
  /\ Idle
  /\ sock[p] \in {"open", "gone", "closed"}
  /\ sock' = [sock EXCEPT ![p] = "closed"]
  /\ peers' = Without(peers, p)
  /\ sent' = <<>>
  /\ last' = Event("close", p, NoFrame, FALSE)
  /\ UNCHANGED <<authToken, peersByModule, before>>
  /\ UNCHANGED outsideBroker

\* close: (peer, details) => ...
close(p) ==
  /\ Idle
  /\ sock[p] \in {"open", "gone", "closed"}
  /\ sock' = [sock EXCEPT ![p] = "closed"]
  /\ peersByModule' = IF p \in DOMAIN peers
                      THEN unregisterModulePeer(peersByModule, peers[p])
                      ELSE peersByModule
  /\ peers' = Without(peers, p)
  /\ sent' = <<>>
  /\ last' = Event("close", p, NoFrame, FALSE)
  /\ UNCHANGED <<authToken, before>>
  /\ UNCHANGED outsideBroker

\* ---------------------------------------------------------------- GET /api/plugins
\* an introspection that counts the module names instead of a name's slots
apiPlugins_countsNames(dir) ==
  {[name |-> n,
    connectedCount |-> Cardinality(DOMAIN dir),
    peers |-> {[index |-> i, peerId |-> dir[n][i]] : i \in DOMAIN dir[n]}] :
     n \in DOMAIN dir}

\* The `plugins` array of the response, as the set of its entries.
apiPlugins(dir) ==
  {[name |-> n,
    connectedCount |-> Cardinality(DOMAIN dir[n]),
    peers |-> {[index |-> i, peerId |-> dir[n][i]] : i \in DOMAIN dir[n]}] :
     n \in DOMAIN dir}

\* app.get('/api/plugins', ...): reads the directory, writes nothing.
plugins ==
  /\ Idle
  /\ sent' = <<>>
  /\ last' = Event("plugins", 0, NoFrame, FALSE)
  /\ UNCHANGED <<authToken, sock, peers, peersByModule, before>>
  /\ UNCHANGED outsideBroker

\* ---------------------------------------------------------------- return
\* The callback has returned (or thrown): the loop waits for the next event.
returned ==
  /\ ~Idle
  /\ last' = Event("idle", 0, NoFrame, FALSE)
  /\ sent' = <<>>
  /\ before' = [sock |-> sock, peers |-> peers, dir |-> peersByModule]
  /\ UNCHANGED <<authToken, sock, peers, peersByModule>>
  /\ UNCHANGED outsideBroker

Next ==
  \/ \E p \in PeerIds : open(p)
  \/ \E p \in PeerIds, f \in Frames : message(p, f)
  \/ \E p \in PeerIds : error(p)
  \/ \E p \in PeerIds : close(p)
  \/ plugins
  \/ returned

Spec == Init /\ [][Next]_vars

\* ============================================================ LiveChatPoller
Min(a, b) == IF a < b THEN a ELSE b

\* seenMessageIds.has(m)
seenHas(seen, m) == \E k \in 1..Len(seen) : seen[k].lo <= m /\ m <= seen[k].hi

\* seenMessageIds.add(m), for an id the set does not hold: m is the newest id
seenAdd(seen, m) ==
  IF seen # <<>> /\ seen[Len(seen)].hi + 1 = m
  THEN [seen EXCEPT ![Len(seen)].hi = m]
  ELSE Append(seen, [lo |-> m, hi |-> m])

\* seenMessageIds.size
RECURSIVE seenSize(_)
seenSize(seen) ==
  IF seen = <<>> THEN 0
  ELSE seen[1].hi - seen[1].lo + 1 + seenSize(Tail(seen))

\* Array.from(seenMessageIds).slice(-n): the n newest ids, for n > 0
RECURSIVE seenSlice(_, _)
seenSlice(seen, n) ==
  IF seenSize(seen) <= n THEN seen
  ELSE IF seenSize(Tail(seen)) >= n THEN seenSlice(Tail(seen), n)
  ELSE <<[lo |-> seen[1].hi - (n - seenSize(Tail(seen))) + 1, hi |-> seen[1].hi]>>
       \o Tail(seen)

\* The loop over result.messages: ids not in the seen set are added to it and
\* given to onMessage.  st = [seen, out].
RECURSIVE processMessages(_, _)
processMessages(messages, st) ==
  IF messages = <<>> THEN st
  ELSE IF seenHas(st.seen, Head(messages))
       THEN processMessages(Tail(messages), st)
       ELSE processMessages(Tail(messages),
              [seen |-> seenAdd(st.seen, Head(messages)),
               out |-> Append(st.out, Head(messages))])

\* if (seenMessageIds.size > 1000) keep Array.from(seenMessageIds).slice(-500)
cleanUp(seen) ==
  IF seenSize(seen) > SeenLimit THEN seenSlice(seen, SeenKeep) ELSE seen

\* a backoff that grows linearly
backoffMs_linear(interval, errors) == Min(interval * 2 * errors, MaxBackoffMs)

\* Math.min(pollingInterval * 2 ** consecutiveErrors, 60000)
backoffMs(interval, errors) == Min(interval * 2 ^ errors, MaxBackoffMs)

\* The number of invocations of onMessage for id m, after the ids of `out`.
Count(out, m) == Cardinality({k \in 1..Len(out) : out[k] = m})

\* stop(): the timers left once the timer of pollTimeoutId, if it is still
\* pending, is cleared.  The newest timer is the one pollTimeoutId names.
cleared == IF pollTimeoutId = "pending" THEN SubSeq(timers, 1, Len(timers) - 1) ELSE timers

\* start()
start ==
  /\ IF isRunning
     THEN /\ polled' = PollerStep("start", 0, <<>>, FALSE, FALSE, 0, FALSE)
          /\ UNCHANGED <<isRunning, consecutiveErrors, inFlight, failedPolls>>
     ELSE /\ inFlight + Len(timers) < MaxChains
          /\ isRunning' = TRUE
          /\ consecutiveErrors' = 0
          /\ failedPolls' = 0
          /\ inFlight' = inFlight + 1
          /\ polled' = PollerStep("start", 0, <<>>, FALSE, FALSE, 0, TRUE)
  /\ UNCHANGED <<nextPageToken, pollingInterval, seenMessageIds, pollTimeoutId,
                 timers, emitted, returnedInterval>>
  /\ UNCHANGED outsidePoller

\* stop()
stop ==
  /\ isRunning' = FALSE
  /\ timers' = cleared
  /\ pollTimeoutId' = "none"
  /\ polled' = PollerStep("stop", 0, <<>>, FALSE, FALSE, 0, FALSE)
  /\ UNCHANGED <<nextPageToken, pollingInterval, seenMessageIds, consecutiveErrors,
                 inFlight, emitted, returnedInterval, failedPolls>>
  /\ UNCHANGED outsidePoller

\* A pending timer fires and runs poll() up to its await.
timerFires(i) ==
  /\ i \in 1..Len(timers)
  /\ timers' = SubSeq(timers, 1, i - 1) \o SubSeq(timers, i + 1, Len(timers))
  /\ pollTimeoutId' = IF i = Len(timers) /\ pollTimeoutId = "pending"
                      THEN "fired" ELSE pollTimeoutId
  /\ inFlight' = IF isRunning THEN inFlight + 1 ELSE inFlight
  /\ polled' = PollerStep("timer", 0, <<>>, FALSE, FALSE, 0, isRunning)
  /\ UNCHANGED <<isRunning, nextPageToken, pollingInterval, seenMessageIds,
                 consecutiveErrors, emitted, returnedInterval, failedPolls>>
  /\ UNCHANGED outsidePoller

\* a try block that leaves the error count as it is
pollResolves_keepsErrors(messages, token, interval) ==
  /\ inFlight > 0
  /\ inFlight' = inFlight - 1
  /\ LET st == processMessages(messages, [seen |-> seenMessageIds, out |-> <<>>])
     IN  /\ \A m \in MessageIds : emitted[m] + Count(st.out, m) <= MaxEmits
         /\ emitted' = [m \in MessageIds |-> emitted[m] + Count(st.out, m)]
         /\ seenMessageIds' = cleanUp(st.seen)
         /\ polled' = PollerStep("resolve", 0, st.out, FALSE, FALSE,
                                 IF isRunning THEN interval ELSE 0, FALSE)
  /\ consecutiveErrors' = consecutiveErrors
  /\ pollingInterval' = interval
  /\ returnedInterval' = interval
  /\ failedPolls' = 0
  /\ nextPageToken' = token
  /\ IF isRunning
     THEN timers' = Append(timers, interval) /\ pollTimeoutId' = "pending"
     ELSE UNCHANGED <<timers, pollTimeoutId>>
  /\ UNCHANGED isRunning
  /\ UNCHANGED outsidePoller

\* poll() after its await, the request resolved: the try block.
pollResolves(messages, token, interval) ==
  /\ inFlight > 0
  /\ inFlight' = inFlight - 1
  /\ LET st == processMessages(messages, [seen |-> seenMessageIds, out |-> <<>>])
     IN  /\ \A m \in MessageIds : emitted[m] + Count(st.out, m) <= MaxEmits
         /\ emitted' = [m \in MessageIds |-> emitted[m] + Count(st.out, m)]
         /\ seenMessageIds' = cleanUp(st.seen)
         /\ polled' = PollerStep("resolve", 0, st.out, FALSE, FALSE,
                                 IF isRunning THEN interval ELSE 0, FALSE)
  /\ consecutiveErrors' = 0
  /\ pollingInterval' = interval
  /\ returnedInterval' = interval
  /\ failedPolls' = 0
  /\ nextPageToken' = token
  /\ IF isRunning
     THEN timers' = Append(timers, interval) /\ pollTimeoutId' = "pending"
     ELSE UNCHANGED <<timers, pollTimeoutId>>
  /\ UNCHANGED isRunning
  /\ UNCHANGED outsidePoller

\* The onEnd callback the plugin gives its pollers, when the poller calls it;
\* onError and onMessage leave the plugin's fields alone.
onEnd(called) ==
  /\ isPolling' = IF called THEN FALSE ELSE isPolling
  /\ UNCHANGED <<chatPoller, currentStreamUrl, orphans>>

\* poll() after its await, the request rejected with the status: the catch block.
pollRejects(status) ==
  /\ inFlight > 0
  /\ inFlight' = inFlight - 1
  /\ consecutiveErrors' = consecutiveErrors + 1
  /\ failedPolls' = failedPolls + 1
  /\ IF status \in {403, 404} \/ consecutiveErrors' >= MaxConsecutiveErrors
     THEN /\ isRunning' = FALSE
          /\ timers' = cleared
          /\ pollTimeoutId' = "none"
          /\ polled' = PollerStep("reject", status, <<>>, status # 404, status = 404, 0, FALSE)
     ELSE /\ IF isRunning
             THEN /\ timers' = Append(timers, backoffMs(pollingInterval, consecutiveErrors'))
                  /\ pollTimeoutId' = "pending"
             ELSE UNCHANGED <<timers, pollTimeoutId>>
          /\ polled' = PollerStep("reject", status, <<>>, TRUE, FALSE,
                                  IF isRunning
                                  THEN backoffMs(pollingInterval, consecutiveErrors')
                                  ELSE 0, FALSE)
          /\ UNCHANGED isRunning
  /\ UNCHANGED <<nextPageToken, pollingInterval, seenMessageIds, emitted, returnedInterval>>
  /\ onEnd(polled'.onEnd)
  /\ UNCHANGED outsidePlugin

\* The pages of the API: up to two messages, a page token, a polling interval.
Pages == {<<>>} \cup {<<m>> : m \in MessageIds} \cup {<<m, n>> : m, n \in MessageIds}
PageTokens == {"", "next"}
\* The statuses of a rejected request: forbidden, not found, server error.
Statuses == {403, 404, 500}

PollerInit ==
  /\ BrokerConstructed("")
  /\ OAuthConstructed(FALSE)
  /\ StoreConstructed
  /\ PluginConstructed("")
  /\ PollerConstructed \/ PollerAfterManyMessages

PollerNext ==
  \/ start
  \/ stop
  \/ \E i \in 1..MaxChains : timerFires(i)
  \/ \E messages \in Pages, token \in PageTokens, interval \in ResultIntervals :
       pollResolves(messages, token, interval)
  \/ \E status \in Statuses : pollRejects(status)

PollerSpec == PollerInit /\ [][PollerNext]_vars

\* ================================================== the plugin (plugin.ts)
\* stopPolling(): stop and drop the poller if there is one. Its requests in
\* flight stay in flight; its pending timer is cleared by stop().
stopPolling ==
  /\ orphans + inFlight <= MaxOrphans
  /\ isPolling' = FALSE
  /\ chatPoller' = FALSE
  /\ orphans' = orphans + inFlight
  /\ isRunning' = FALSE
  /\ nextPageToken' = ""
  /\ pollingInterval' = DefaultPollingInterval
  /\ seenMessageIds' = <<>>
  /\ pollTimeoutId' = "none"
  /\ consecutiveErrors' = 0
  /\ inFlight' = 0
  /\ timers' = <<>>
  /\ emitted' = [m \in MessageIds |-> 0]
  /\ returnedInterval' = DefaultPollingInterval
  /\ failedPolls' = 0
  /\ polled' = PollerStep("new", 0, <<>>, FALSE, FALSE, 0, FALSE)

\* startPollingForStream(streamUrl): without tokens it starts the OAuth flow
\* and returns; without a live chat id (no video id in the URL, the stream is
\* not live, or the request threw) it returns; otherwise stopPolling(), a new
\* poller, start() on it, isPolling = true.
startPollingForStream(tokens, liveChatId) ==
  IF tokens /\ liveChatId
  THEN /\ orphans + inFlight <= MaxOrphans
       /\ orphans' = orphans + inFlight
       /\ chatPoller' = TRUE
       /\ isPolling' = TRUE
       /\ isRunning' = TRUE
       /\ nextPageToken' = ""
       /\ pollingInterval' = DefaultPollingInterval
       /\ seenMessageIds' = <<>>
       /\ pollTimeoutId' = "none"
       /\ consecutiveErrors' = 0
       /\ inFlight' = 1
       /\ timers' = <<>>
       /\ emitted' = [m \in MessageIds |-> 0]
       /\ returnedInterval' = DefaultPollingInterval
       /\ failedPolls' = 0
       /\ polled' = PollerStep("start", 0, <<>>, FALSE, FALSE, 0, TRUE)
  ELSE UNCHANGED <<isPolling, chatPoller, orphans, pollerVars>>

\* The module:configure handler. valid: isYouTubeConfig(config); enabled is
\* FALSE for enabled === false; streamUrl "" for none.
configure(valid, startOAuth, enabled, streamUrl, tokens, liveChatId) ==
  /\ IF ~valid \/ startOAuth
     THEN UNCHANGED <<pluginVars, pollerVars>>
     ELSE IF ~enabled
     THEN stopPolling /\ UNCHANGED currentStreamUrl
     ELSE IF streamUrl # "" /\ streamUrl # currentStreamUrl
     THEN /\ currentStreamUrl' = streamUrl
          /\ startPollingForStream(tokens, liveChatId)
     ELSE IF streamUrl # "" /\ ~isPolling
     THEN /\ UNCHANGED currentStreamUrl
          /\ startPollingForStream(tokens, liveChatId)
     ELSE UNCHANGED <<pluginVars, pollerVars>>
  /\ UNCHANGED outsidePlugin

\* YouTubeLiveChatPlugin.start(): with a stream URL and tokens it starts
\* polling, with a stream URL and no tokens it starts the OAuth flow.
pluginStart(tokens, liveChatId) ==
  /\ IF currentStreamUrl # "" /\ tokens
     THEN startPollingForStream(tokens, liveChatId)
     ELSE UNCHANGED <<isPolling, chatPoller, orphans, pollerVars>>
  /\ UNCHANGED currentStreamUrl
  /\ UNCHANGED outsidePlugin

\* YouTubeLiveChatPlugin.stop()
pluginStop ==
  /\ stopPolling
  /\ UNCHANGED currentStreamUrl
  /\ UNCHANGED outsidePlugin

\* A request of a dropped poller resolves: poll() goes on after its await
\* with isRunning false, hands the page to onMessage and sets no timer.
orphanResolves ==
  /\ orphans > 0
  /\ orphans' = orphans - 1
  /\ UNCHANGED <<isPolling, chatPoller, currentStreamUrl, pollerVars>>
  /\ UNCHANGED outsidePlugin

\* A request of a dropped poller rejects: the catch block of poll() calls the
\* callbacks the poller was constructed with, onEnd for status 404.
orphanRejects(status) ==
  /\ orphans > 0
  /\ orphans' = orphans - 1
  /\ isPolling' = IF status = 404 THEN FALSE ELSE isPolling
  /\ UNCHANGED <<chatPoller, currentStreamUrl, pollerVars>>
  /\ UNCHANGED outsidePlugin

PluginInit ==
  /\ BrokerConstructed("")
  /\ OAuthConstructed(FALSE)
  /\ StoreConstructed
  /\ PollerConstructed
  /\ \E streamUrl \in {"", "a"} : PluginConstructed(streamUrl)

PluginNext ==
  \/ \E valid, startOAuth, enabled, tokens, liveChatId \in BOOLEAN, streamUrl \in StreamUrls :
       configure(valid, startOAuth, enabled, streamUrl, tokens, liveChatId)
  \/ \E tokens, liveChatId \in BOOLEAN : pluginStart(tokens, liveChatId)
  \/ pluginStop
  \/ \E i \in 1..MaxChains : timerFires(i)
  \/ \E messages \in Pages, token \in PageTokens, interval \in ResultIntervals :
       pollResolves(messages, token, interval)
  \/ \E status \in Statuses : pollRejects(status)
  \/ orphanResolves
  \/ \E status \in Statuses : orphanRejects(status)

PluginSpec == PluginInit /\ [][PluginNext]_vars

\* ================================== the server-channel store (channel-server.ts)
\* The store's fields, as the functions below pass them on.
StoreState == [connected |-> connected, client |-> client,
               initializing |-> initializing, pendingSend |-> pendingSend,
               clients |-> clients, handed |-> handed]

\* The next Client to be constructed, 0 when the run has used them all.
NewClient ==
  IF \E c \in 1..MaxClients : clients[c] = "unused"
  THEN CHOOSE c \in 1..MaxClients :
         clients[c] = "unused" /\ \A d \in 1..(c - 1) : clients[d] # "unused"
  ELSE 0

\* Client.send for each of the events, in order, on the current Client.
handTo(st, events) ==
  [st EXCEPT !.handed = st.handed \o
     [i \in 1..Len(events) |->
        [event |-> events[i], client |-> st.client,
         authenticated |-> st.clients[st.client] = "authenticated"]]]

\* initialize(): nothing when connected with a client or when an
\* initialisation is under way; otherwise a new Client and a new promise.
initialize(st) ==
  IF (st.connected /\ st.client # 0) \/ st.initializing
  THEN st
  ELSE [st EXCEPT !.client = NewClient,
                  !.clients[NewClient] = "connecting",
                  !.initializing = TRUE]

\* flush(): with a client and connected, send what is pending and empty it.
flush(st) ==
  IF st.client # 0 /\ st.connected
  THEN [handTo(st, st.pendingSend) EXCEPT !.pendingSend = <<>>]
  ELSE st

\* send(data)
send(st, event) ==
  LET st1 == IF st.client = 0 /\ ~st.initializing THEN initialize(st) ELSE st
  IN  IF st1.client # 0 /\ st1.connected
      THEN handTo(st1, <<event>>)
      ELSE [st1 EXCEPT !.pendingSend = Append(st1.pendingSend, event)]

\* dispose(): flush, close the client, forget it.
dispose(st) ==
  LET st1 == flush(st)
  IN  [st1 EXCEPT !.clients = IF st1.client # 0
                             THEN [st1.clients EXCEPT ![st1.client] = "closing"]
                             ELSE st1.clients,
                  !.connected = FALSE,
                  !.client = 0,
                  !.initializing = FALSE]

\* The store's fields become those of st.
becomes(st) ==
  /\ connected' = st.connected
  /\ client' = st.client
  /\ initializing' = st.initializing
  /\ pendingSend' = st.pendingSend
  /\ clients' = st.clients
  /\ handed' = st.handed

\* A call of initialize() (also the one ensureConnected() makes).
storeInitialize ==
  /\ (connected /\ client # 0) \/ initializing \/ NewClient # 0
  /\ becomes(initialize(StoreState))
  /\ UNCHANGED calls
  /\ UNCHANGED outsideStore

\* A call of send(data) with the next event.
storeSend ==
  /\ calls < MaxEvents
  /\ client # 0 \/ initializing \/ NewClient # 0
  /\ calls' = calls + 1
  /\ becomes(send(StoreState, calls'))
  /\ UNCHANGED outsideStore

\* A call of dispose().
storeDispose ==
  /\ becomes(dispose(StoreState))
  /\ UNCHANGED calls
  /\ UNCHANGED outsideStore

\* The onError or onClose option of Client c is called: both set connected
\* to false and initializing to null.
clientDown(c) ==
  /\ clients[c] \in {"connecting", "authenticated", "down", "closing"}
  /\ clients' = [clients EXCEPT ![c] = IF @ = "closing" THEN "closed" ELSE "down"]
  /\ connected' = FALSE
  /\ initializing' = FALSE
  /\ UNCHANGED <<client, pendingSend, handed, calls>>
  /\ UNCHANGED outsideStore

\* The module:authenticated listener registered on Client c is called.
moduleAuthenticated(c, authenticated) ==
  /\ clients[c] \in {"connecting", "authenticated", "down"}
  /\ IF authenticated
     THEN becomes(flush([StoreState EXCEPT !.clients[c] = "authenticated",
                                           !.connected = TRUE]))
     ELSE becomes([StoreState EXCEPT !.clients[c] = "connecting",
                                     !.connected = FALSE])
  /\ UNCHANGED calls
  /\ UNCHANGED outsideStore

StoreInit ==
  /\ BrokerConstructed("")
  /\ OAuthConstructed(FALSE)
  /\ PollerConstructed
  /\ PluginConstructed("")
  /\ StoreConstructed

StoreNext ==
  \/ storeInitialize
  \/ storeSend
  \/ storeDispose
  \/ \E c \in 1..MaxClients : clientDown(c)
  \/ \E c \in 1..MaxClients, authenticated \in BOOLEAN : moduleAuthenticated(c, authenticated)

StoreSpec == StoreInit /\ [][StoreNext]_vars

\* ============================================ the OAuth server (oauth/server.ts)
\* this.authResolve?.(value): resolve the promise authResolve belongs to; a
\* promise that is already resolved stays as it is.
resolved(value) ==
  IF authResolve # 0 /\ flows[authResolve] = "waiting"
  THEN [flows EXCEPT ![authResolve] = IF value THEN "true" ELSE "false"]
  ELSE flows

\* The state values a callback request may carry: those startAuthFlow()
\* generated and one it never generated.
CallbackStates == 1..(MaxFlows + 1)

\* updateCredentials(clientId, clientSecret)
updateCredentials(credentials) ==
  /\ hasCredentials' = credentials
  /\ UNCHANGED <<codeVerifier, state, authResolve, flows, authTimers, exchanging, storedTokens>>
  /\ UNCHANGED outsideOAuth

\* startAuthFlow() up to its await of open(): without credentials it
\* returns false, otherwise it generates the PKCE values and the state.
startAuthFlow(f) ==
  /\ flows[f] = "unstarted"
  /\ \A g \in 1..(f - 1) : flows[g] # "unstarted"
  /\ IF ~hasCredentials
     THEN /\ flows' = [flows EXCEPT ![f] = "false"]
          /\ UNCHANGED <<codeVerifier, state>>
     ELSE /\ flows' = [flows EXCEPT ![f] = "opening"]
          /\ codeVerifier' = f
          /\ state' = f
  /\ UNCHANGED <<hasCredentials, authResolve, authTimers, exchanging, storedTokens>>
  /\ UNCHANGED outsideOAuth

\* startAuthFlow() after open() has settled: the promise, authResolve, the
\* five-minute timer.
browserOpened(f) ==
  /\ flows[f] = "opening"
  /\ flows' = [flows EXCEPT ![f] = "waiting"]
  /\ authResolve' = f
  /\ authTimers' = [authTimers EXCEPT ![f] = "pending"]
  /\ UNCHANGED <<hasCredentials, codeVerifier, state, exchanging, storedTokens>>
  /\ UNCHANGED outsideOAuth

\* The timer of call f fires.
authTimeout(f) ==
  /\ authTimers[f] = "pending"
  /\ authTimers' = [authTimers EXCEPT ![f] = "fired"]
  /\ IF authResolve = f
     THEN /\ authResolve' = 0
          /\ flows' = resolved(FALSE)
     ELSE UNCHANGED <<authResolve, flows>>
  /\ UNCHANGED <<hasCredentials, codeVerifier, state, exchanging, storedTokens>>
  /\ UNCHANGED outsideOAuth

\* A request for /oauth/google/callback: with an error parameter, without
\* code or state, or with a code and the state given.
oauthCallback(kind, given) ==
  /\ IF kind \in {"error", "missing"} \/ given # state \/ codeVerifier = 0
     THEN /\ flows' = resolved(FALSE)
          /\ UNCHANGED exchanging
     ELSE /\ exchanging < MaxExchanges
          /\ exchanging' = exchanging + 1
          /\ UNCHANGED flows
  /\ UNCHANGED <<hasCredentials, codeVerifier, state, authResolve, authTimers, storedTokens>>
  /\ UNCHANGED outsideOAuth

\* The token request of a callback handler completes: exchangeCodeForTokens
\* stores the tokens and clears the PKCE state, or throws.
exchangeCompletes(ok) ==
  /\ exchanging > 0
  /\ exchanging' = exchanging - 1
  /\ IF ok
     THEN /\ storedTokens' = TRUE
          /\ codeVerifier' = 0
          /\ state' = 0
     ELSE UNCHANGED <<storedTokens, codeVerifier, state>>
  /\ flows' = resolved(ok)
  /\ UNCHANGED <<hasCredentials, authResolve, authTimers>>
  /\ UNCHANGED outsideOAuth

OAuthInit ==
  /\ BrokerConstructed("")
  /\ PollerConstructed
  /\ PluginConstructed("")
  /\ StoreConstructed
  /\ \E credentials \in BOOLEAN : OAuthConstructed(credentials)

OAuthNext ==
  \/ \E credentials \in BOOLEAN : updateCredentials(credentials)
  \/ \E f \in 1..MaxFlows : startAuthFlow(f)
  \/ \E f \in 1..MaxFlows : browserOpened(f)
  \/ \E f \in 1..MaxFlows : authTimeout(f)
  \/ \E kind \in {"error", "missing", "code"}, given \in CallbackStates :
       oauthCallback(kind, given)
  \/ \E ok \in BOOLEAN : exchangeCompletes(ok)

\* open() settles, a timer that is due fires, a token request completes.
OAuthFairness ==
  /\ \A f \in 1..MaxFlows : WF_vars(browserOpened(f))
  /\ \A f \in 1..MaxFlows : WF_vars(authTimeout(f))
  /\ WF_vars(\E ok \in BOOLEAN : exchangeCompletes(ok))

OAuthSpec == OAuthInit /\ [][OAuthNext]_vars /\ OAuthFairness

\* ======================================================== properties
\* The slots of the directory, as <<name, index>> pairs, and their occupants.
Slots(dir) == {<<n, i>> : n \in DOMAIN dir, i \in UNION {DOMAIN dir[m] : m \in DOMAIN dir}}
OccupiedSlots(dir) == {sl \in Slots(dir) : sl[2] \in DOMAIN dir[sl[1]]}
Occupant(dir, sl) == dir[sl[1]][sl[2]]
DirectoryPeers(dir) == {Occupant(dir, sl) : sl \in OccupiedSlots(dir)}

\* The callback handled an envelope of the given type, with its data.
IsMessage(e, type) ==
  e.op = "message" /\ e.frame.json /\ e.frame.data /\ e.frame.type = type
\* The callback handled a parsed frame in the default case of the switch.
IsDefault(e) ==
  /\ e.op = "message"
  /\ e.frame.json
  /\ e.frame.type \notin {"module:authenticate", "module:announce", "ui:configure"}

\* C1: in every reachable state each (name, index) slot of the Module
\* Directory holds one peer id (the directory is a map from slots to peers),
\* and every peer a slot refers to is present in the Peer Registry.
C1_DirectoryInRegistry ==
  \A sl \in OccupiedSlots(peersByModule) :
    /\ Occupant(peersByModule, sl) \in PeerIds
    /\ Occupant(peersByModule, sl) \in DOMAIN peers

\* A peer has left (by close, or dropped at a failed broadcast send) while
\* another peer still occupies a slot.
C1_Witness ==
  /\ \E q \in PeerIds : sock[q] \in {"gone", "closed"} /\ q \notin DOMAIN peers
  /\ \E sl \in OccupiedSlots(peersByModule) : Occupant(peersByModule, sl) \in DOMAIN peers
  /\ last.op \in {"close", "message"}

\* The peer in slot sl of the directory, 0 when the slot is free.
Holder(dir, sl) ==
  IF sl[1] \in DOMAIN dir /\ sl[2] \in DOMAIN dir[sl[1]] THEN dir[sl[1]][sl[2]] ELSE 0
\* The slot a peer's record names: where its last accepted announce put it.
SlotOf(rec) == <<rec.name, rec.index>>
\* Peer a has announced a slot that another peer has announced after it.
Superseded(a) ==
  /\ a \in DOMAIN peers
  /\ peers[a].name # ""
  /\ Holder(peersByModule, SlotOf(peers[a])) \notin {0, a}

\* C2: when peer A is superseded in its slot by peer B, then A's close, A's
\* removal at a failed broadcast send, and a later module:announce of A (other
\* than one that takes the slot back) leave the slot occupied by B, as long as
\* B itself stays in the registry.
C2_SupersededUnregisterIsNoOp ==
  [][\A a \in PeerIds :
       LET sl == SlotOf(peers[a])
           b == Holder(peersByModule, sl)
       IN  (/\ Superseded(a)
            /\ b \in DOMAIN peers'
            /\ \/ a \notin DOMAIN peers'
               \/ /\ IsMessage(last', "module:announce") /\ last'.peer = a
                  /\ Holder(peersByModule', sl) # a)
           => Holder(peersByModule', sl) = b]_vars

\* The frame of a module:announce that validation rejects: name missing, empty
\* or not a string, or index present and not a non-negative integer.
InvalidAnnounce(f) ==
  \/ ~(f.name.t = "string" /\ f.name.s # "")
  \/ /\ f.index.t # "undefined"
     /\ ~(f.index.t = "number" /\ f.index.n2 % 2 = 0 /\ f.index.n2 >= 0)

\* C3: a module:announce rejected by validation sends one error event to the
\* sender and leaves the registry and the directory as they were.
C3_RejectedAnnounceChangesNothing ==
  [][(IsMessage(last', "module:announce") /\ InvalidAnnounce(last'.frame))
       => /\ Len(sent') = 1
          /\ sent'[1].type = "error" /\ sent'[1].to = last'.peer
          /\ peers' = peers
          /\ peersByModule' = peersByModule]_vars

\* The step is the default case run for a frame of authenticated peer p.
BroadcastStep(p) ==
  /\ IsDefault(last') /\ last'.peer = p
  /\ p \in DOMAIN peers /\ peers[p].authenticated

SendsTo(out, q) == {k \in 1..Len(out) : out[k].to = q}
FailedIn(out) == {out[k].to : k \in {j \in 1..Len(out) : ~out[j].ok}}

\* C4: in a broadcast in which sends fail, every peer of the registry other
\* than the sender is sent the event exactly once, the sends to the peers whose
\* socket is not gone succeed and these peers stay registered, and every peer
\* whose send failed is afterwards absent from the registry and from every
\* slot of the directory.
C4_BroadcastSurvivesFailures ==
  [][\A p \in PeerIds :
       (BroadcastStep(p) /\ FailedIn(sent') # {})
       => /\ \A q \in DOMAIN peers \ {p} : Cardinality(SendsTo(sent', q)) = 1
          /\ \A q \in DOMAIN peers \ FailedIn(sent') : q \in DOMAIN peers'
          /\ \A q \in FailedIn(sent') :
               /\ q \notin DOMAIN peers'
               /\ q \notin DirectoryPeers(peersByModule')]_vars

\* A broadcast whose first send failed and whose second send succeeded.
C4_Witness ==
  /\ IsDefault(last)
  /\ Len(sent) = 2
  /\ ~sent[1].ok /\ sent[2].ok
  /\ sent[1].to \notin DOMAIN peers
  /\ sent[2].to \in DOMAIN peers

\* C5: a default-type event of an authenticated peer A is sent once to each of
\* the N other peers of the registry and not to A: N send attempts in all.
C5_BroadcastToAllOthers ==
  [][\A p \in PeerIds :
       BroadcastStep(p)
       => /\ Len(sent') = Cardinality(DOMAIN peers \ {p})
          /\ {sent'[k].to : k \in 1..Len(sent')} = DOMAIN peers \ {p}
          /\ \A k \in 1..Len(sent') : sent'[k].type = last'.frame.type]_vars

\* A broadcast with two other peers in the registry.
C5_Witness ==
  /\ IsDefault(last)
  /\ last.peer \in DOMAIN peers /\ peers[last.peer].authenticated
  /\ Len(sent) = 2
  /\ sent[1].to # sent[2].to

\* C6: with a shared secret configured, a default-type event of a peer that
\* has not authenticated yields one 'not authenticated' notice to that peer
\* and no send to any other peer.
C6_UnauthenticatedNotBroadcast ==
  (/\ authToken # ""
   /\ IsDefault(last)
   /\ last.peer \in DOMAIN peers => ~peers[last.peer].authenticated)
  => sent = <<Out(last.peer, "error", MsgNotAuthenticated, "", ServerSource, TRUE)>>

\* An unauthenticated peer has sent a default-type event with others connected.
C6_Witness ==
  /\ authToken # ""
  /\ IsDefault(last)
  /\ last.peer \in DOMAIN peers /\ ~peers[last.peer].authenticated
  /\ Cardinality(DOMAIN peers) = MaxPeers
  /\ Len(sent) = 1

\* The slot a ui:configure frame addresses, when its moduleName is a string.
Addressed(f) == <<f.name.s, f.index>>
AddressesOccupied(dir, f) == f.name.t = "string" /\ Holder(dir, Addressed(f)) # 0

\* C7: a ui:configure that addresses an occupied slot makes one send, of a
\* module:configure event carrying the frame's config, to the slot's occupant.
C7_ConfigureReachesOccupant ==
  (IsMessage(last, "ui:configure") /\ AddressesOccupied(peersByModule, last.frame))
  => /\ Len(sent) = 1
     /\ sent[1].to = Holder(peersByModule, Addressed(last.frame))
     /\ sent[1].type = "module:configure"
     /\ sent[1].config = last.frame.config

\* A ui:configure of one peer delivered to another, with a third peer and a
\* second occupied slot present.
C7_Witness ==
  /\ IsMessage(last, "ui:configure")
  /\ AddressesOccupied(peersByModule, last.frame)
  /\ Len(sent) = 1 /\ sent[1].ok /\ sent[1].to # last.peer
  /\ Cardinality(DOMAIN peers) = MaxPeers
  /\ Cardinality(OccupiedSlots(peersByModule)) > 1

\* C8: a ui:configure that addresses no occupied slot sends one error event to
\* the sender, nothing to any other peer, and changes neither registry nor
\* directory.
C8_ConfigureMiss ==
  [][(IsMessage(last', "ui:configure") /\ ~AddressesOccupied(peersByModule, last'.frame))
       => /\ Len(sent') = 1
          /\ sent'[1].type = "error" /\ sent'[1].to = last'.peer
          /\ peers' = peers
          /\ peersByModule' = peersByModule]_vars

\* A ui:configure answered 'module not found' while another slot is occupied.
C8_Witness ==
  /\ IsMessage(last, "ui:configure")
  /\ sent = <<Out(last.peer, "error", MsgNotFound, "", ServerSource, TRUE)>>
  /\ OccupiedSlots(peersByModule) # {}
  /\ Cardinality(DOMAIN peers) > 1

\* C9: with a shared secret configured, a module:authenticate with the correct
\* token leaves the sender authenticated and makes one send, the
\* module:authenticated acknowledgement to the sender.
C9_CorrectTokenAuthenticates ==
  (/\ authToken # ""
   /\ IsMessage(last, "module:authenticate")
   /\ last.frame.token = authToken)
  => /\ last.peer \in DOMAIN peers
     /\ peers[last.peer].authenticated
     /\ sent = <<Out(last.peer, "module:authenticated", "", "", ServerSource, TRUE)>>

\* A peer has authenticated with the secret while another peer is connected.
C9_Witness ==
  /\ authToken # ""
  /\ IsMessage(last, "module:authenticate")
  /\ last.frame.token = authToken
  /\ peers[last.peer].authenticated
  /\ \E q \in DOMAIN peers : q # last.peer /\ ~peers[q].authenticated

\* C10: with a shared secret configured, a module:authenticate with a wrong
\* token sends one 'invalid token' error to the sender and changes nothing in
\* the registry or the directory; the sender stays registered on an open
\* connection, so it can retry.
C10_WrongTokenChangesNothing ==
  [][(/\ authToken # ""
      /\ IsMessage(last', "module:authenticate")
      /\ last'.frame.token # authToken)
       => /\ sent' = <<Out(last'.peer, "error", MsgInvalidToken, "", ServerSource, TRUE)>>
          /\ peers' = peers
          /\ peersByModule' = peersByModule
          /\ sock' = sock
          /\ last'.peer \in DOMAIN peers'
          /\ sock'[last'.peer] = "open"]_vars

\* A wrong token from a peer that has authenticated before: the flag stays.
C10_Witness ==
  /\ authToken # ""
  /\ IsMessage(last, "module:authenticate")
  /\ last.frame.token # authToken
  /\ peers[last.peer].authenticated
  /\ sent = <<Out(last.peer, "error", MsgInvalidToken, "", ServerSource, TRUE)>>

\* The slots of the directory that hold peer p.
HeldBy(dir, p) == {sl \in OccupiedSlots(dir) : Occupant(dir, sl) = p}
\* The callback that just ran accepted a module:announce of peer p.
AcceptedAnnounce(p) ==
  /\ IsMessage(last, "module:announce") /\ last.peer = p
  /\ ~InvalidAnnounce(last.frame)
  /\ sent = <<>>
  /\ p \in DOMAIN before.peers

\* C11: when a peer that holds slot S1 announces a different slot S2 and the
\* announce is accepted, the peer afterwards holds S2 and no other slot, and
\* S1 is free (until some peer announces into it).
C11_ReannounceMovesPeer ==
  \A p \in PeerIds :
    (/\ AcceptedAnnounce(p)
     /\ HeldBy(before.dir, p) # {}
     /\ Addressed(last.frame) \notin HeldBy(before.dir, p))
    => /\ HeldBy(peersByModule, p) = {Addressed(last.frame)}
       /\ \A s1 \in HeldBy(before.dir, p) : Holder(peersByModule, s1) = 0

\* A peer has moved from one slot to the other while another peer is registered.
C11_Witness ==
  \E p \in PeerIds :
    /\ AcceptedAnnounce(p)
    /\ HeldBy(before.dir, p) # {}
    /\ Addressed(last.frame) \notin HeldBy(before.dir, p)
    /\ HeldBy(peersByModule, p) = {Addressed(last.frame)}
    /\ DOMAIN peers # {p}

\* C12: when peer b's announce into a slot held by another peer a is accepted,
\* the slot afterwards holds b; a is still in the registry with the record and
\* the socket it had, so a broadcast still reaches it, and a lookup of the
\* slot no longer yields a.
C12_AnnounceReplacesOccupant ==
  \A a, b \in PeerIds :
    (/\ a # b
     /\ AcceptedAnnounce(b)
     /\ Holder(before.dir, Addressed(last.frame)) = a)
    => /\ Holder(peersByModule, Addressed(last.frame)) = b
       /\ a \in DOMAIN peers
       /\ peers[a] = before.peers[a]
       /\ sock[a] = before.sock[a]
       /\ lookupModulePeer(peersByModule, last.frame.name, last.frame.index) # a
       /\ a \notin DirectoryPeers(peersByModule)

\* Peer b has taken the slot of peer a, whose connection is open.
C12_Witness ==
  \E a, b \in PeerIds :
    /\ a # b
    /\ AcceptedAnnounce(b)
    /\ Holder(before.dir, Addressed(last.frame)) = a
    /\ Holder(peersByModule, Addressed(last.frame)) = b
    /\ a \in DOMAIN peers /\ sock[a] = "open"

\* C13: with a shared secret configured, every peer a slot of the directory
\* refers to has authenticated = true.
C13_DirectoryPeersAuthenticated ==
  authToken # ""
  => \A q \in DirectoryPeers(peersByModule) :
       q \in DOMAIN peers /\ peers[q].authenticated

\* With a secret, an unauthenticated peer has just been refused a valid
\* announce while another peer holds a slot.
C13_Witness ==
  /\ authToken # ""
  /\ IsMessage(last, "module:announce")
  /\ ~InvalidAnnounce(last.frame)
  /\ sent = <<ErrorTo(last.peer, MsgMustAuthenticate)>>
  /\ ~peers[last.peer].authenticated
  /\ DirectoryPeers(peersByModule) # {}

\* A frame that is not an envelope {type, data, source}.
Malformed(f) == ~f.json \/ f.type = "" \/ ~f.data

\* C14: a frame that is not valid JSON, or that is JSON without a `type` or
\* without a `data`, is answered with exactly one error event to its sender
\* and with no other send, changes neither the registry nor the directory,
\* does not end the handler by an exception and leaves every socket as it was.
C14_MalformedFrameGetsError ==
  (last.op = "message" /\ Malformed(last.frame))
  => /\ Len(sent) = 1
     /\ sent[1].type = "error" /\ sent[1].to = last.peer
     /\ peers = before.peers
     /\ peersByModule = before.dir
     /\ sock = before.sock
     /\ ~last.threw

\* C15: when the send of module:configure to the addressed peer fails, that
\* peer is afterwards in neither the registry nor the directory, nothing is
\* sent to the sender, and the handler does not end by an exception.
C15_FailedConfigureDropsTarget ==
  (/\ IsMessage(last, "ui:configure")
   /\ Len(sent) = 1 /\ sent[1].type = "module:configure" /\ ~sent[1].ok)
  => /\ sent[1].to \notin DOMAIN peers
     /\ sent[1].to \notin DirectoryPeers(peersByModule)
     /\ ~last.threw

\* C16: a close event for a peer that is not in the registry (its close was
\* handled before, or a failed broadcast send removed it) ends without an
\* exception and leaves the registry and the directory as they were.
C16_CloseOfUnknownPeerIsNoOp ==
  (last.op = "close" /\ last.peer \notin DOMAIN before.peers)
  => /\ ~last.threw
     /\ sent = <<>>
     /\ peers = before.peers
     /\ peersByModule = before.dir

\* The close of a peer that a failed broadcast send had removed, while a slot
\* of the directory is occupied.
C16_Witness ==
  /\ last.op = "close"
  /\ last.peer \notin DOMAIN before.peers
  /\ before.sock[last.peer] = "gone"
  /\ DirectoryPeers(peersByModule) # {}

\* C17: the open callback stores the new peer with an empty name and no index;
\* without a shared secret it stores authenticated = true and sends the peer
\* one module:authenticated event, with a secret it stores authenticated =
\* false and sends nothing.
C17_OpenStoresPeer ==
  last.op = "open"
  => /\ last.peer \notin DOMAIN before.peers
     /\ last.peer \in DOMAIN peers
     /\ peers[last.peer].name = ""
     /\ peers[last.peer].index = JUndef
     /\ IF authToken = ""
        THEN peers[last.peer].authenticated /\ sent = <<AuthenticatedTo(last.peer)>>
        ELSE ~peers[last.peer].authenticated /\ sent = <<>>
     /\ \A q \in DOMAIN before.peers : q \in DOMAIN peers /\ peers[q] = before.peers[q]

\* With a secret, a connection opens next to a peer that has authenticated.
C17_Witness ==
  /\ last.op = "open"
  /\ authToken # ""
  /\ sent = <<>>
  /\ ~peers[last.peer].authenticated
  /\ \E q \in DOMAIN peers : peers[q].authenticated

\* C18: the module:configure event sent for a ui:configure carries the source
\* and the config of the ui:configure frame.
C18_ConfigureKeepsSource ==
  IsMessage(last, "ui:configure")
  => \A k \in 1..Len(sent) :
       sent[k].type = "module:configure"
       => sent[k].source = last.frame.source /\ sent[k].config = last.frame.config

\* A module:configure was delivered for a frame whose source is a plugin.
C18_Witness ==
  /\ IsMessage(last, "ui:configure")
  /\ last.frame.source = "plugin"
  /\ Len(sent) = 1 /\ sent[1].type = "module:configure" /\ sent[1].ok
  /\ sent[1].source = "plugin"

\* C19: a peer leaves the registry only in its own close callback or in a
\* broadcast whose send to it failed, and a socket is closed only by its own
\* close event: no other callback, whatever it replies, removes a peer.
C19_PeerStaysUntilCloseOrFailedSend ==
  /\ \A q \in DOMAIN before.peers \ DOMAIN peers :
       \/ last.op = "close" /\ last.peer = q
       \/ IsDefault(last) /\ q \in FailedIn(sent)
  /\ \A q \in PeerIds :
       (sock[q] = "closed" /\ before.sock[q] # "closed")
       => last.op = "close" /\ last.peer = q

\* With a secret, a peer whose event was rejected as not authenticated is
\* still registered on an open connection.
C19_Witness ==
  /\ IsDefault(last)
  /\ sent = <<NotAuthenticatedTo(last.peer)>>
  /\ last.peer \in DOMAIN peers
  /\ sock[last.peer] = "open"
  /\ peers = before.peers

\* C20: in a broadcast, every other peer of the registry that has not
\* authenticated or has not announced is sent the event exactly once, as the
\* announced peers are.
C20_BroadcastIgnoresPeerState ==
  (/\ IsDefault(last)
   /\ last.peer \in DOMAIN before.peers
   /\ before.peers[last.peer].authenticated)
  => \A q \in DOMAIN before.peers \ {last.peer} :
       (~before.peers[q].authenticated \/ before.peers[q].name = "")
       => /\ Cardinality(SendsTo(sent, q)) = 1
          /\ \A k \in SendsTo(sent, q) : sent[k].type = last.frame.type

\* A broadcast delivered to a peer that has not authenticated and to a peer
\* that holds a slot.
C20_Witness ==
  /\ IsDefault(last)
  /\ before.peers[last.peer].authenticated
  /\ \E q, r \in DOMAIN before.peers \ {last.peer} :
       /\ ~before.peers[q].authenticated
       /\ HeldBy(before.dir, r) # {}
       /\ \E k \in SendsTo(sent, q) : sent[k].ok
       /\ \E k \in SendsTo(sent, r) : sent[k].ok

\* C21: the response of GET /api/plugins has one entry per module name with
\* an occupied slot; the entry's connectedCount is the number of occupied
\* slots of the name and its peers are, per occupied slot, the index and the
\* id of the occupant, a peer of the registry; the request leaves the
\* registry and the directory as they were.
C21_IntrospectionIsDirectory ==
  last.op = "plugins"
  => LET response == apiPlugins(before.dir)
         names == {sl[1] : sl \in OccupiedSlots(before.dir)}
     IN  /\ {e.name : e \in response} = names
         /\ Cardinality(response) = Cardinality(names)
         /\ \A e \in response :
              /\ e.connectedCount
                   = Cardinality({sl \in OccupiedSlots(before.dir) : sl[1] = e.name})
              /\ e.connectedCount > 0
              /\ {<<e.name, q.index>> : q \in e.peers}
                   = {sl \in OccupiedSlots(before.dir) : sl[1] = e.name}
              /\ \A q \in e.peers :
                   /\ q.peerId = Occupant(before.dir, <<e.name, q.index>>)
                   /\ q.peerId \in DOMAIN peers
         /\ peers = before.peers
         /\ peersByModule = before.dir
         /\ sock = before.sock

\* The query is answered while two slots of a name are occupied and a peer
\* of the registry holds no slot.
C21_Witness ==
  /\ last.op = "plugins"
  /\ \E e \in apiPlugins(peersByModule) : e.connectedCount = 2
  /\ DOMAIN peers \ DirectoryPeers(peersByModule) # {}

\* C22: every module name present in the directory has at least one occupied
\* slot, so the introspection response has no entry with connectedCount 0.
C22_NoEmptyModuleName ==
  /\ \A n \in DOMAIN peersByModule : DOMAIN peersByModule[n] # {}
  /\ \A e \in apiPlugins(peersByModule) : e.connectedCount # 0

\* The last occupant of the only announced name has just been unregistered.
C22_Witness ==
  /\ before.dir # Empty
  /\ peersByModule = Empty
  /\ last.op \in {"close", "message"}

C24_NextPollDelay ==
  /\ (/\ polled.op = "reject" /\ polled.status \notin {403, 404}
      /\ failedPolls \in 1..(MaxConsecutiveErrors - 1)
      /\ isRunning)
     => /\ polled.scheduled
             = IF returnedInterval * 2 ^ failedPolls < 60000
               THEN returnedInterval * 2 ^ failedPolls ELSE 60000
        /\ timers # <<>> /\ timers[Len(timers)] = polled.scheduled
  /\ (polled.op = "resolve" /\ isRunning)
     => /\ polled.scheduled = returnedInterval
        /\ polled.scheduled = pollingInterval
        /\ timers # <<>> /\ timers[Len(timers)] = polled.scheduled

\* The third failure in a row after a result with interval 10000: the delay
\* is cut to the cap.
C24_Witness ==
  /\ polled.op = "reject" /\ polled.status = 500
  /\ isRunning
  /\ failedPolls = 3
  /\ returnedInterval = 10000
  /\ polled.scheduled = MaxBackoffMs

\* C25: with a shared secret configured, every module:announce of a peer that
\* has not authenticated, whatever its name and index, is answered with the
\* one error 'must authenticate before announcing' and changes nothing.
C25_UnauthenticatedAnnounceRejected ==
  (/\ authToken # ""
   /\ IsMessage(last, "module:announce")
   /\ ~before.peers[last.peer].authenticated)
  => /\ sent = <<ErrorTo(last.peer, MsgMustAuthenticate)>>
     /\ peers = before.peers
     /\ peersByModule = before.dir

\* The peers whose registry record, and the slots whose occupancy, the
\* callback that just ran has changed.
AllSlots == {<<n, i>> : n \in ModuleNames, i \in ValidIndexes}
RecordOf(reg, q) == IF q \in DOMAIN reg THEN reg[q] ELSE [absent |-> TRUE]
ChangedPeers == {q \in PeerIds : RecordOf(before.peers, q) # RecordOf(peers, q)}
ChangedSlots == {sl \in AllSlots : Holder(before.dir, sl) # Holder(peersByModule, sl)}

\* C26 (as claimed): the handling of one frame, open or close changes the
\* registry record of one peer, never of two, and the occupancy of at most
\* one slot of the directory.
C26_OnePeerOneSlotPerStep ==
  last.op \in {"open", "close", "message"}
  => /\ Cardinality(ChangedPeers) <= 1
     /\ Cardinality(ChangedSlots) <= 1

\* The slots the record of peer q named when the callback started.
SlotsNamedBy(q) ==
  IF q \in DOMAIN before.peers /\ before.peers[q].name # ""
  THEN {SlotOf(before.peers[q])} ELSE {}

\* C26 (amended): a callback other than a broadcast changes no registry
\* record but that of the peer whose event it handles, and no slot but the
\* one that peer's record named and, for an announce, the one announced; a
\* broadcast changes the records of exactly the recipients whose send failed
\* (it removes them) and no slot but those their records named.
C26_StepChangesOwnPeerOrFailedRecipients ==
  /\ (last.op # "idle" /\ ~(IsDefault(last) /\ FailedIn(sent) # {}))
     => /\ ChangedPeers \subseteq {last.peer}
        /\ ChangedSlots \subseteq
             SlotsNamedBy(last.peer)
             \cup (IF IsMessage(last, "module:announce") /\ last.frame.name.t = "string"
                   THEN {Addressed(last.frame)} ELSE {})
        /\ last.op \in {"error", "plugins"} => ChangedPeers = {} /\ ChangedSlots = {}
  /\ (IsDefault(last) /\ FailedIn(sent) # {})
     => /\ ChangedPeers = FailedIn(sent)
        /\ \A q \in FailedIn(sent) : q \notin DOMAIN peers
        /\ ChangedSlots \subseteq UNION {SlotsNamedBy(q) : q \in FailedIn(sent)}

\* A broadcast has removed two recipients and freed the slots of both.
C26_Witness ==
  /\ IsDefault(last)
  /\ Cardinality(FailedIn(sent)) = 2
  /\ Cardinality(ChangedPeers) = 2
  /\ Cardinality(ChangedSlots) = 2

\* C27: with a shared secret configured, the handling of a frame of a peer
\* that has not authenticated sends nothing to any other peer.
C27_UnauthenticatedReachesNobody ==
  (/\ authToken # ""
   /\ last.op = "message"
   /\ ~before.peers[last.peer].authenticated)
  => \A k \in 1..Len(sent) : sent[k].to = last.peer

\* C28: every peer a slot (n, i) of the directory refers to has a registry
\* record with name = n and index = i.
C28_RecordNamesSlot ==
  \A sl \in OccupiedSlots(peersByModule) :
    /\ Occupant(peersByModule, sl) \in DOMAIN peers
    /\ peers[Occupant(peersByModule, sl)].name = sl[1]
    /\ peers[Occupant(peersByModule, sl)].index = sl[2]

\* Two peers hold the two slots, one of them after moving from the other's
\* slot, and a third peer's record names a slot that it does not hold.
C28_Witness ==
  /\ Cardinality(DirectoryPeers(peersByModule)) = 2
  /\ \E q \in DOMAIN peers :
       /\ peers[q].name # ""
       /\ Holder(peersByModule, SlotOf(peers[q])) \notin {0, q}

\* C29: a peer whose authenticated flag is true keeps it true in every
\* callback that leaves it in the registry.
C29_AuthenticationIsMonotone ==
  \A q \in DOMAIN before.peers \cap DOMAIN peers :
    before.peers[q].authenticated => peers[q].authenticated

\* With a secret, an authenticated peer that holds a slot has sent a wrong
\* token and is still authenticated.
C29_Witness ==
  /\ authToken # ""
  /\ IsMessage(last, "module:authenticate")
  /\ last.frame.token # authToken
  /\ before.peers[last.peer].authenticated
  /\ peers[last.peer].authenticated
  /\ HeldBy(peersByModule, last.peer) # {}

\* The slot of the same name with the other index.
Sibling(sl) == <<sl[1], IF sl[2] = JUndef THEN JInt(0) ELSE JUndef>>
BothSlotsHeld(dir, n) ==
  /\ Holder(dir, <<n, JUndef>>) # 0
  /\ Holder(dir, <<n, JInt(0)>>) # 0
  /\ Holder(dir, <<n, JUndef>>) # Holder(dir, <<n, JInt(0)>>)

\* C30: the slot (n, no index) and the slot (n, 0) are two slots: an accepted
\* announce into one leaves the other with the peer that holds it, and while
\* two peers hold them a ui:configure without moduleIndex is sent to the
\* holder of (n, no index) only, one with moduleIndex 0 to the holder of
\* (n, 0) only.
C30_NoIndexIsNotIndexZero ==
  /\ \A b \in PeerIds :
       (/\ AcceptedAnnounce(b)
        /\ last.frame.index \in {JUndef, JInt(0)}
        /\ Holder(before.dir, Sibling(Addressed(last.frame))) \notin {0, b})
       => /\ Holder(peersByModule, Sibling(Addressed(last.frame)))
               = Holder(before.dir, Sibling(Addressed(last.frame)))
          /\ Holder(peersByModule, Addressed(last.frame)) = b
  /\ (/\ IsMessage(last, "ui:configure")
      /\ last.frame.name.t = "string"
      /\ last.frame.index \in {JUndef, JInt(0)}
      /\ BothSlotsHeld(before.dir, last.frame.name.s))
     => /\ Len(sent) = 1
        /\ sent[1].type = "module:configure"
        /\ sent[1].to = Holder(before.dir, Addressed(last.frame))
        /\ sent[1].to # Holder(before.dir, Sibling(Addressed(last.frame)))

\* A broadcast over a snapshot of the registry: first the fan-out, one send
\* per peer of the snapshot other than the sender, recording the failures...
RECURSIVE snapshotFanOut(_, _, _, _, _, _)
snapshotFanOut(id, sender, f, fails, snapshot, out) ==
  IF id > MaxPeers THEN out
  ELSE IF id \notin DOMAIN snapshot \/ id = sender
       THEN snapshotFanOut(id + 1, sender, f, fails, snapshot, out)
  ELSE snapshotFanOut(id + 1, sender, f, fails, snapshot,
         Append(out, Out(id, f.type, "", f.config, f.source, id \notin fails)))

\* ... then the removal of the failed recipients from registry and directory.
RECURSIVE snapshotRemovals(_, _, _, _)
snapshotRemovals(id, failed, snapshot, st) ==
  IF id > MaxPeers THEN st
  ELSE IF id \in failed
       THEN snapshotRemovals(id + 1, failed, snapshot,
              [peers |-> Without(st.peers, id),
               dir |-> unregisterModulePeer(st.dir, snapshot[id])])
  ELSE snapshotRemovals(id + 1, failed, snapshot, st)

\* C31: a broadcast by the loop over the live registry makes the send
\* attempts, and ends in the registry and the directory, of a broadcast over
\* a snapshot of the registry that removes the failed recipients after the
\* fan-out.
C31_LiveLoopIsSnapshotBroadcast ==
  (/\ IsDefault(last)
   /\ before.peers[last.peer].authenticated)
  => LET \* the recipients whose socket is gone when they are sent to
         fails == {q \in DOMAIN before.peers \ {last.peer} : sock[q] # "open"}
         out == snapshotFanOut(1, last.peer, last.frame, fails, before.peers, <<>>)
         st == snapshotRemovals(1, FailedIn(out), before.peers,
                                [peers |-> before.peers, dir |-> before.dir])
     IN  /\ sent = out
         /\ peers = st.peers
         /\ peersByModule = st.dir

\* A broadcast in which the send to the first of two recipients failed, the
\* failed one holding a slot.
C31_Witness ==
  /\ IsDefault(last)
  /\ \E q, r \in DOMAIN before.peers \ {last.peer} :
       /\ q < r
       /\ q \in FailedIn(sent) /\ HeldBy(before.dir, q) # {}
       /\ r \notin FailedIn(sent) /\ SendsTo(sent, r) # {}

\* C32: once stop() has run and start() has not run again (the poller is not
\* running), no step of the poller invokes onMessage and none issues a
\* request, also when a request was in flight when stop() ran.
C32_StoppedPollerIsSilent ==
  ~isRunning => (polled.messages = <<>> /\ ~polled.requested)

\* C33: whatever the order of start(), stop(), request completions and timer
\* firings, the requests in flight and the pending timers are never more
\* than one in total.
C33_AtMostOneChain ==
  inFlight + Len(timers) <= 1

\* C34: a running poller stops in a step of its own exactly when a request
\* rejects with status 403 (onError called), with status 404 (onEnd called,
\* onError not), or as the fifth rejection in a row; a request that resolves
\* sets the error count to 0 and never stops the poller.
C34_SelfStopCases ==
  [][/\ (isRunning /\ polled'.op = "reject")
        => /\ polled'.status = 403
                => ~isRunning' /\ polled'.onError /\ ~polled'.onEnd
           /\ polled'.status = 404
                => ~isRunning' /\ polled'.onEnd /\ ~polled'.onError
           /\ polled'.status \notin {403, 404}
                => /\ polled'.onError /\ ~polled'.onEnd
                   /\ ~isRunning' <=> failedPolls' >= 5
     /\ (isRunning /\ ~isRunning') => polled'.op \in {"stop", "reject"}
     /\ polled'.op = "resolve"
        => consecutiveErrors' = 0 /\ isRunning' = isRunning]_vars

\* The poller has stopped at the fifth rejection in a row, after a request
\* had resolved.
C34_Witness ==
  /\ polled.op = "reject" /\ polled.status = 500
  /\ failedPolls = 5
  /\ ~isRunning
  /\ polled.onError
  /\ returnedInterval # DefaultPollingInterval

\* C35: in every state of the plugin isPolling is true exactly when there is
\* a current chatPoller and it is running; after the poller has stopped
\* itself isPolling is false.
C35_IsPollingIffPollerRuns ==
  isPolling <=> (chatPoller /\ isRunning)

\* C36: every event handed to a Client is handed to a Client that is
\* authenticated at that moment, no event is handed over twice, events are
\* handed over in the order of their send() calls, and every event passed
\* to send() is either pending or has been handed over.
C36_QueuedUntilAuthenticatedOnceInOrder ==
  /\ \A i \in 1..Len(handed) : handed[i].authenticated
  /\ \A i, j \in 1..Len(handed) : i < j => handed[i].event < handed[j].event
  /\ \A e \in 1..calls :
        \/ \E i \in 1..Len(handed) : handed[i].event = e
        \/ \E i \in 1..Len(pendingSend) : pendingSend[i] = e

\* C37: every call of startAuthFlow() that has started eventually resolves,
\* to true or to false, also when another call starts before it has
\* resolved.
C37_EveryAuthFlowResolves ==
  \A f \in 1..MaxFlows :
    (flows[f] \in {"opening", "waiting"}) ~> (flows[f] \in {"true", "false"})
====
